---- MODULE Spec2Model ----
(***************************************************************************)
(* Model of the agenda ingestion pipeline of agenda-membres-cm:            *)
(*   generate_ical_files.py     clean_html, parse_datetime,                *)
(*                              parse_csv_content, convert_csv_to_ical,    *)
(*                              main                                       *)
(*   generate_daily_summaries.py parse_date, parse_time, read_agenda_file, *)
(*                              main                                       *)
(* Python str values are TLA+ strings; an Optional value is a sequence of  *)
(* length 0 (None) or 1; a dict is a function from its key set.            *)
(***************************************************************************)
EXTENDS Integers, Sequences, FiniteSets, TLC

VARIABLES
    pc,            \* position of generate_ical_files.main / convert_csv_to_ical
    remaining,     \* csv files not yet handed to convert_csv_to_ical
    results,       \* one record per finished convert_csv_to_ical call
    lines,         \* content.split('\n') of the source being parsed
    i,             \* index of the next line of the for loop of parse_csv_content
    headers,       \* parse_csv_content: headers (None or a list)
    current_row,   \* parse_csv_content: current_row (None or a dict)
    rows,          \* parse_csv_content: rows
    fields,        \* parse_csv_content: fields of the last header or row line
    r,             \* index of the next row of the for loop of convert_csv_to_ical
    cal,           \* events added to the calendar of the current source
    dpc,           \* position of generate_daily_summaries.main / read_agenda_file
    dremaining,    \* csv files not yet handed to read_agenda_file
    filepath,      \* read_agenda_file: filepath
    reader,        \* the rows the csv reader yields for the current file
    rownum,        \* index of the next row the reader yields
    activities,    \* read_agenda_file: activities
    all_activities,\* generate_daily_summaries.main: all_activities
    date_str,      \* argument of parse_datetime / parse_date
    time_str,      \* argument of parse_datetime / parse_time
    html_text,     \* argument of clean_html (text), None when absent
    result,        \* the function called on them and what it returned
    spc,           \* position of the summary loop of generate_daily_summaries.main
    today,         \* main: today, as a calendar date
    day_i,         \* main: i of the loop over the last days
    md_files,      \* the markdown files written, in order
    json_files,    \* the json files written, in order
    all_daily_json,\* main: all_daily_json
    weekly,        \* what was dumped to weekly_summary.json, None before
    returns        \* the calls of the two parsers that are over, in order

vars == << pc, remaining, results, lines, i, headers, current_row, rows, fields,
           r, cal, dpc, dremaining, filepath, reader, rownum, activities,
           all_activities, date_str, time_str, html_text, result, spc, today,
           day_i,
           md_files, json_files, all_daily_json, weekly, returns >>

icalVars == << pc, remaining, results, lines, i, headers, current_row, rows,
               fields, r, cal >>

dailyVars == << dpc, dremaining, filepath, reader, rownum, activities,
               all_activities >>

pureVars == << date_str, time_str, html_text, result >>

summaryVars == << spc, today, day_i, md_files, json_files, all_daily_json,
                  weekly >>

callVars == << returns >>

(***************************************************************************)
(* Bounds of the model.                                                    *)
(***************************************************************************)
MaxLines == 3

MaxRows == 2

\* activities in all_activities when the summary loop starts
MaxActs == 4

\* days the summary loop goes back (range(31) in main)
MaxDays == 2

\* length of the texts of brackets handed to clean_html
MaxTextLen == 3

None == << >>

Some(v) == << v >>

(***************************************************************************)
(* str helpers.                                                            *)
(***************************************************************************)
Digits == {"0", "1", "2", "3", "4", "5", "6", "7", "8", "9"}

Whitespace == {" ", "\t", "\n", "\r", "\f"}

CharAt(s, k) == SubSeq(s, k, k)

Max(a, b) == IF a >= b THEN a ELSE b

Min(a, b) == IF a <= b THEN a ELSE b

IsDigits(s) == \A k \in 1..Len(s) : CharAt(s, k) \in Digits

DigitVal(c) ==
    CASE c = "0" -> 0 [] c = "1" -> 1 [] c = "2" -> 2 [] c = "3" -> 3
      [] c = "4" -> 4 [] c = "5" -> 5 [] c = "6" -> 6 [] c = "7" -> 7
      [] c = "8" -> 8 [] c = "9" -> 9

RECURSIVE ToInt(_)
ToInt(s) ==
    IF s = "" THEN 0
    ELSE 10 * ToInt(SubSeq(s, 1, Len(s) - 1)) + DigitVal(CharAt(s, Len(s)))

StartsWithAt(s, k, p) ==
    /\ k + Len(p) - 1 <= Len(s)
    /\ SubSeq(s, k, k + Len(p) - 1) = p

\* str.strip(chars): drop the characters of cs from both ends
RECURSIVE LStripChars(_, _)
LStripChars(s, cs) ==
    IF s # "" /\ CharAt(s, 1) \in cs THEN LStripChars(SubSeq(s, 2, Len(s)), cs)
    ELSE s

RECURSIVE RStripChars(_, _)
RStripChars(s, cs) ==
    IF s # "" /\ CharAt(s, Len(s)) \in cs
    THEN RStripChars(SubSeq(s, 1, Len(s) - 1), cs)
    ELSE s

StripChars(s, cs) == RStripChars(LStripChars(s, cs), cs)

\* str.strip()
Strip(s) == StripChars(s, Whitespace)

\* str.count(c) for a one-character c
Count(s, c) == Cardinality({k \in 1..Len(s) : CharAt(s, k) = c})

\* c in s
Contains(s, c) == \E k \in 1..Len(s) : CharAt(s, k) = c

\* str.replace(old, new): left to right, non-overlapping
RECURSIVE ReplaceFrom(_, _, _, _)
ReplaceFrom(s, k, old, new) ==
    LET hits == {m \in k..Len(s) : StartsWithAt(s, m, old)} IN
    IF hits = {} THEN SubSeq(s, k, Len(s))
    ELSE LET m == CHOOSE h \in hits : \A q \in hits : h <= q IN
         SubSeq(s, k, m - 1) \o new \o ReplaceFrom(s, m + Len(old), old, new)

Replace(s, old, new) == ReplaceFrom(s, 1, old, new)

\* the positions of the characters of cs in s
Positions(s, cs) == {k \in 1..Len(s) : CharAt(s, k) \in cs}

\* the j-th smallest element of the set of positions P
Nth(P, j) == CHOOSE k \in P : Cardinality({m \in P : m < k}) = j - 1

\* the pieces of s between the positions P: s cut at each of them
CutAt(s, P) ==
    LET n == Cardinality(P) IN
    [j \in 1..(n + 1) |->
        SubSeq(s, IF j = 1 THEN 1 ELSE Nth(P, j - 1) + 1,
                  IF j = n + 1 THEN Len(s) ELSE Nth(P, j) - 1)]

\* s * n
RECURSIVE Repeat(_, _)
Repeat(s, n) ==
    IF n = 0 THEN ""
    ELSE LET h == Repeat(s, n \div 2) IN
         h \o h \o (IF n % 2 = 1 THEN s ELSE "")

\* length of the run of decimal digits of s that starts at position k
DigitRun(s, k) ==
    LET stops == {m \in k..Len(s) : CharAt(s, m) \notin Digits} IN
    IF stops = {} THEN Max(Len(s) - k + 1, 0)
    ELSE (CHOOSE m \in stops : \A q \in stops : m <= q) - k

\* str.split('\n')
SplitLines(s) == CutAt(s, Positions(s, {"\n"}))

\* '\n'.join(seq)
RECURSIVE JoinLines(_)
JoinLines(seq) ==
    IF seq = << >> THEN ""
    ELSE IF Len(seq) = 1 THEN seq[1]
         ELSE seq[1] \o "\n" \o JoinLines(Tail(seq))

(***************************************************************************)
(* clean_html (generate_ical_files.py).                                    *)
(***************************************************************************)
\* sys.int_info.default_max_str_digits of CPython (3.11 and later, and the
\* security releases of 3.7 to 3.10): int() raises ValueError on a decimal
\* string of more digits
default_max_str_digits == 4300

\* html.unescape raises: a decimal character reference &#d...d is replaced by
\* way of int(), which raises ValueError once the digits outnumber the limit.
\* Every "&#" starts a reference: no other reference extends over a '&'.
UnescapeRaises(s) ==
    \E k \in 1..Len(s) :
        /\ StartsWithAt(s, k, "&#")
        /\ DigitRun(s, k + 2) > default_max_str_digits

\* html.unescape on the character references the inputs of the model use:
\* &lt &gt &amp, each with or without its semicolon
EntityAt(s, k) ==
    IF StartsWithAt(s, k, "&lt;") THEN << "<", 4 >>
    ELSE IF StartsWithAt(s, k, "&lt") THEN << "<", 3 >>
    ELSE IF StartsWithAt(s, k, "&gt;") THEN << ">", 4 >>
    ELSE IF StartsWithAt(s, k, "&gt") THEN << ">", 3 >>
    ELSE IF StartsWithAt(s, k, "&amp;") THEN << "&", 5 >>
    ELSE IF StartsWithAt(s, k, "&amp") THEN << "&", 4 >>
    ELSE << CharAt(s, k), 1 >>

RECURSIVE UnescapeFrom(_, _)
UnescapeFrom(s, k) ==
    IF k > Len(s) THEN ""
    ELSE LET e == EntityAt(s, k) IN e[1] \o UnescapeFrom(s, k + e[2])

HtmlUnescape(s) == UnescapeFrom(s, 1)

\* position of the first '>' at or after k, 0 when there is none
RECURSIVE FindGt(_, _)
FindGt(s, k) ==
    IF k > Len(s) THEN 0
    ELSE IF CharAt(s, k) = ">" THEN k ELSE FindGt(s, k + 1)

\* re.sub(r'<[^>]+>', '', text)
RECURSIVE StripTagsFrom(_, _)
StripTagsFrom(s, k) ==
    IF k > Len(s) THEN ""
    ELSE IF CharAt(s, k) = "<"
         THEN LET g == FindGt(s, k + 1) IN
              IF g >= k + 2 THEN StripTagsFrom(s, g + 1)
              ELSE "<" \o StripTagsFrom(s, k + 1)
         ELSE CharAt(s, k) \o StripTagsFrom(s, k + 1)

StripTags(s) == StripTagsFrom(s, 1)

\* last '\n' of the whitespace run that starts at k, 0 when it holds none
RECURSIVE LastNewlineInRun(_, _, _)
LastNewlineInRun(s, k, last) ==
    IF k > Len(s) \/ CharAt(s, k) \notin Whitespace THEN last
    ELSE LastNewlineInRun(s, k + 1, IF CharAt(s, k) = "\n" THEN k ELSE last)

\* re.sub(r'\n\s*\n', '\n', text)
RECURSIVE CollapseFrom(_, _)
CollapseFrom(s, k) ==
    IF k > Len(s) THEN ""
    ELSE IF CharAt(s, k) = "\n"
         THEN LET j == LastNewlineInRun(s, k + 1, 0) IN
              IF j > 0 THEN "\n" \o CollapseFrom(s, j + 1)
              ELSE "\n" \o CollapseFrom(s, k + 1)
         ELSE CharAt(s, k) \o CollapseFrom(s, k + 1)

CollapseBlankLines(s) == CollapseFrom(s, 1)

ReplaceKnownTags(s) ==
    LET t1 == Replace(Replace(s, "<p>", ""), "</p>", "\n")
        t2 == Replace(Replace(Replace(t1, "<br>", "\n"), "<br/>", "\n"),
                      "<br />", "\n")
        t3 == Replace(Replace(t2, "<sup>", ""), "</sup>", "")
    IN  Replace(Replace(t3, "<strong>", ""), "</strong>", "")

\* line 29 raises: the ValueError leaves clean_html
CleanHtmlRaises(text) == text # "" /\ UnescapeRaises(text)

clean_html(text) ==
    IF text = "" THEN ""
    ELSE Strip(CollapseBlankLines(StripTags(ReplaceKnownTags(HtmlUnescape(text)))))

(***************************************************************************)
(* datetime.strptime, as the three formats of the sources use it.          *)
(***************************************************************************)
\* position of the first character of cs at or after k, 0 when there is none
FindChar(s, k, cs) ==
    LET P == {m \in Positions(s, cs) : m >= k} IN
    IF P = {} THEN 0 ELSE CHOOSE m \in P : \A q \in P : m <= q

IsLeap(y) == (y % 4 = 0 /\ y % 100 # 0) \/ y % 400 = 0

DaysInMonth(m, y) ==
    IF m = 2 THEN (IF IsLeap(y) THEN 29 ELSE 28)
    ELSE IF m \in {4, 6, 9, 11} THEN 30 ELSE 31

\* %d : 3[0-1]|[1-2]\d|0[1-9]|[1-9]| [1-9]
DayToken(t) ==
    \/ Len(t) = 2 /\ IsDigits(t) /\ ToInt(t) \in 1..31
    \/ Len(t) = 1 /\ IsDigits(t) /\ ToInt(t) \in 1..9
    \/ Len(t) = 2 /\ CharAt(t, 1) = " " /\ IsDigits(CharAt(t, 2))
          /\ ToInt(CharAt(t, 2)) \in 1..9

\* %m : 1[0-2]|0[1-9]|[1-9]
MonthToken(t) ==
    \/ Len(t) = 2 /\ IsDigits(t) /\ ToInt(t) \in 1..12
    \/ Len(t) = 1 /\ IsDigits(t) /\ ToInt(t) \in 1..9

\* %H : 2[0-3]|[0-1]\d|\d
HourToken(t) == Len(t) \in {1, 2} /\ IsDigits(t) /\ ToInt(t) \in 0..23

\* %M : [0-5]\d|\d
MinuteToken(t) == Len(t) \in {1, 2} /\ IsDigits(t) /\ ToInt(t) \in 0..59

\* datetime.strptime(s, '%d-%m-%Y'): None stands for ValueError
StrptimeDate(s) ==
    LET p1 == FindChar(s, 1, {"-"})
        p2 == IF p1 = 0 THEN 0 ELSE FindChar(s, p1 + 1, {"-"})
        dd == SubSeq(s, 1, p1 - 1)
        mm == SubSeq(s, p1 + 1, p2 - 1)
        yy == SubSeq(s, p2 + 1, Len(s))
        dv == ToInt(LStripChars(dd, {" "}))
    IN  IF /\ p1 > 0 /\ p2 > 0
           /\ DayToken(dd) /\ MonthToken(mm)
           /\ Len(yy) = 4 /\ IsDigits(yy) /\ ToInt(yy) >= 1
           /\ dv <= DaysInMonth(ToInt(mm), ToInt(yy))
        THEN Some([year |-> ToInt(yy), month |-> ToInt(mm), day |-> dv,
                   hour |-> 0, minute |-> 0])
        ELSE None

\* datetime.strptime(s, '%H<sep>%M').time(): None stands for ValueError;
\* the format's literal is matched ignoring case
StrptimeTime(s, seps) ==
    LET p  == FindChar(s, 1, seps)
        hh == SubSeq(s, 1, p - 1)
        mi == SubSeq(s, p + 1, Len(s))
    IN  IF p > 0 /\ HourToken(hh) /\ MinuteToken(mi)
        THEN Some([hour |-> ToInt(hh), minute |-> ToInt(mi)])
        ELSE None

(***************************************************************************)
(* parse_datetime (generate_ical_files.py).                                *)
(***************************************************************************)
\* re.match(r'(\d{2}-\d{2}-\d{4})', date_str)
DateRunMatch(s) ==
    /\ Len(s) >= 10
    /\ IsDigits(SubSeq(s, 1, 2)) /\ CharAt(s, 3) = "-"
    /\ IsDigits(SubSeq(s, 4, 5)) /\ CharAt(s, 6) = "-"
    /\ IsDigits(SubSeq(s, 7, 10))

\* re.match(r'^\d{1,2}:\d{2}$', time_str); $ also matches before a final '\n'
TimePatternMatch(t) ==
    LET u == IF t # "" /\ CharAt(t, Len(t)) = "\n"
             THEN SubSeq(t, 1, Len(t) - 1) ELSE t
        p == FindChar(u, 1, {":"})
    IN  /\ p \in {2, 3}
        /\ IsDigits(SubSeq(u, 1, p - 1))
        /\ Len(u) = p + 2
        /\ IsDigits(SubSeq(u, p + 1, Len(u)))

\* lines 65-67: the marker becomes a colon, a string without one gets ':00'
NormalizeTime(t) ==
    LET t1 == Replace(t, "h", ":")
    IN  IF ~Contains(t1, ":") THEN t1 \o ":00" ELSE t1

parse_datetime(ds, ts) ==
    IF ds = "" THEN None
    ELSE IF ~DateRunMatch(ds) THEN None
    ELSE LET date_obj == StrptimeDate(SubSeq(ds, 1, 10)) IN
         IF date_obj = None THEN None                  \* ValueError, line 75
         ELSE IF ts # ""
              THEN LET t == NormalizeTime(ts) IN
                   IF ~TimePatternMatch(t) THEN date_obj
                   ELSE LET time_obj == StrptimeTime(t, {":"}) IN
                        IF time_obj = None THEN None   \* ValueError, line 75
                        ELSE Some([date_obj[1] EXCEPT
                                     !.hour = time_obj[1].hour,
                                     !.minute = time_obj[1].minute])
              ELSE date_obj

(***************************************************************************)
(* parse_date, parse_time (generate_daily_summaries.py).  A call either    *)
(* returns a value or raises ValueError.                                   *)
(***************************************************************************)
ValueError == [raised |-> TRUE]

Returned(v) == [raised |-> FALSE, value |-> v]

parse_date(ds) ==
    LET d == StrptimeDate(ds) IN
    IF d = None THEN ValueError ELSE Returned(d[1])

parse_time(ts) ==
    IF ts = "" THEN Returned(None)
    ELSE LET t == StrptimeTime(ts, {"h", "H"}) IN
         IF t = None THEN ValueError ELSE Returned(t)

(***************************************************************************)
(* dict helpers.                                                           *)
(***************************************************************************)
\* d.get(k, default)
DictGet(d, k, default) == IF k \in DOMAIN d THEN d[k] ELSE default

\* d[k] = v
DictSet(d, k, v) ==
    [x \in DOMAIN d \cup {k} |-> IF x = k THEN v ELSE d[x]]


(***************************************************************************)
(* parse_csv_content (generate_ical_files.py).                             *)
(***************************************************************************)
\* (mutant) line 95 without the count of the quotes
IsNewRowSemicolon(line) == Contains(line, ";")

\* line 95: the line looks like a header or a complete row
IsNewRow(line) == Count(line, "\"") >= 2 /\ Contains(line, ";")

\* (mutant) the loop of lines 103-112 without the flag of lines 105-106
InQuotesNever(line, k) == FALSE

\* lines 103-107: in_quotes when the loop reaches character k of the line
InQuotesAt(line, k) ==
    Cardinality({m \in 1..(k - 1) : CharAt(line, m) = "\""}) % 2 = 1

\* line 108: the semicolons that end a field
Boundaries(line) ==
    {k \in 1..Len(line) : CharAt(line, k) = ";" /\ ~InQuotesAt(line, k)}

\* lines 105-112: the characters of a piece of the line that enter
\* current_field: all but the quote characters
RECURSIVE DropQuotes(_)
DropQuotes(s) ==
    IF Len(s) <= 1 THEN (IF s = "\"" THEN "" ELSE s)
    ELSE LET h == Len(s) \div 2 IN
         DropQuotes(SubSeq(s, 1, h)) \o DropQuotes(SubSeq(s, h + 1, Len(s)))

\* lines 109, 115: current_field.strip(' "')
RawField(piece) == StripChars(DropQuotes(piece), {" ", "\""})

\* lines 109, 115: the field appended
FieldText(piece) == clean_html(RawField(piece))

\* lines 101-115: the pieces of the line that become fields; the text after
\* the last boundary is a field only when current_field is not empty
FieldPieces(line) ==
    LET pieces == CutAt(line, Boundaries(line))
        n      == Len(pieces)
    IN  SubSeq(pieces, 1, IF DropQuotes(pieces[n]) # "" THEN n ELSE n - 1)

\* lines 101-115: split the fields of a line, honouring quotes
SplitFields(line) ==
    LET pieces == FieldPieces(line) IN
    [j \in 1..Len(pieces) |-> FieldText(pieces[j])]

\* lines 109, 115: clean_html raises on one of the fields of the line
SplitRaises(line) ==
    LET pieces == FieldPieces(line) IN
    \E j \in 1..Len(pieces) : CleanHtmlRaises(RawField(pieces[j]))

\* lines 134, 136: clean_html raises on a continuation line
ContinuationRaises(line) == CleanHtmlRaises(StripChars(line, {" ", "\""}))

\* lines 123-124: while len(fields) < len(headers): fields.append("")
PadFields(fs, n) ==
    [j \in 1..Max(Len(fs), n) |-> IF j <= Len(fs) THEN fs[j] ELSE ""]

\* line 127: dict(zip(headers, fields)); a repeated key keeps its last value
ZipDict(hs, fs) ==
    LET n == Min(Len(hs), Len(fs)) IN
    [k \in {hs[j] : j \in 1..n} |->
        fs[CHOOSE j \in 1..n : hs[j] = k /\ \A m \in (j + 1)..n : hs[m] # k]]

\* (mutant) the zip without the padding of lines 123-124
MakeRowNoPad(hs, fs) == ZipDict(hs, fs)

MakeRow(hs, fs) == ZipDict(hs, PadFields(fs, Len(hs)))

\* lines 132-136: a continuation line goes to the Participants of the open row
AppendContinuation(row, line) ==
    LET current_content == Strip(DictGet(row, "Participants", ""))
        text == clean_html(StripChars(line, {" ", "\""}))
    IN  IF current_content # ""
        THEN DictSet(row, "Participants", current_content \o "\n" \o text)
        ELSE DictSet(row, "Participants", text)

\* line 97-98 / 139-140: rows.append(current_row) when a row is open
CloseRow(rs, cur) == IF cur # None THEN Append(rs, cur[1]) ELSE rs

(***************************************************************************)
(* The sources the model feeds to the batch: each is at most MaxLines of   *)
(* the physical lines below, joined by '\n'.                               *)
(***************************************************************************)
\* the key of line 163, its accented letter written in ASCII; the headers of
\* the sources below spell the column the same way
TypeKey == "Type d'activite"

\* the csv files of minister_agendas/active and minister_agendas/inactive
CsvFiles ==
    << "minister_agendas/active/jean-roy.csv",
       "minister_agendas/inactive/lise.csv" >>

SourceLines ==
    { "\"Date\";\"Heure\";\"Description\";\"Participants\"",
      "\"Date\";\"Heure\";\"Type d'activite\"",
      "\"05-03-2024\";\"14h30\";\"<p>Avis</p>\";\"Al<br>Bo\"",
      "\"05-03-2024\";\"abc\";\"Visite\"",
      "\"06-03-2024\";\"\";\"A;B\";\"Eve\";\"extra\"",
      "Carol",
      "<br>",
      "  " }

\* a decimal character reference of one digit more than int() accepts
HostileRef == "&#" \o Repeat("1", default_max_str_digits + 1)

\* sources that hold the reference: in a field of a data row, in a
\* continuation line of an open row, and in a line that no row is open for
HostileContents ==
    { JoinLines(<< "\"Date\";\"Heure\";\"Description\"",
                   "\"05-03-2024\";\"14h30\";\"" \o HostileRef \o "\"" >>),
      JoinLines(<< "\"Date\";\"Heure\";\"Description\"",
                   "\"05-03-2024\";\"14h30\";\"Avis\"",
                   HostileRef >>),
      JoinLines(<< HostileRef, "\"Date\";\"Heure\"" >>) }

\* sources with a column for the activity type and one for the description:
\* rows with both, with either one, and with neither; and a source whose row
\* has both and participants on several lines, one of them a continuation
SummaryContents ==
    { JoinLines(<< "\"Date\";\"Heure\";\"Type d'activite\";\"Description\"",
                   "\"05-03-2024\";\"14h30\";\"Visite\";\"Avis\"",
                   "\"07-03-2024\";\"10h00\"" >>),
      JoinLines(<< "\"Date\";\"Heure\";\"Type d'activite\";\"Description\"",
                   "\"05-03-2024\";\"\";\"Visite\"",
                   "\"05-03-2024\";\"\";\"\";\"Avis\"" >>),
      JoinLines(<< "\"Date\";\"Heure\";\"Type d'activite\";\"Description\";\"Participants\"",
                   "\"05-03-2024\";\"14h30\";\"Visite\";\"Avis\";\"Al<br> <br> Bo \"",
                   "Carol" >>) }

Contents ==
    { JoinLines(seq) : seq \in UNION { [1..n -> SourceLines] : n \in 0..MaxLines } }
    \cup HostileContents \cup SummaryContents

(***************************************************************************)
(* convert_csv_to_ical (generate_ical_files.py), one row of its loop.      *)
(***************************************************************************)
TIMEZONE == "America/Montreal"

RECURSIVE NonEmptyStripped(_)
NonEmptyStripped(seq) ==
    IF seq = << >> THEN << >>
    ELSE IF Strip(Head(seq)) # ""
         THEN << Strip(Head(seq)) >> \o NonEmptyStripped(Tail(seq))
         ELSE NonEmptyStripped(Tail(seq))

\* (mutant) line 209 without its two strip calls: every line, as it is
ParticipantLinesRaw(participants) == SplitLines(participants)

\* line 209
ParticipantLines(participants) == NonEmptyStripped(SplitLines(participants))

\* lines 202-214
FullDescription(activity_type, description, participants) ==
    LET pl == IF participants # "" THEN ParticipantLines(participants) ELSE << >>
    IN  (IF activity_type # "" THEN << "Type: " \o activity_type >> ELSE << >>)
        \o (IF description # "" THEN << "Description: " \o description >>
            ELSE << >>)
        \o (IF pl # << >>
            THEN << "Participants:" >> \o [j \in 1..Len(pl) |-> "- " \o pl[j]]
            ELSE << >>)

\* lines 188-196: a timed event when the Heure text is non-empty, else all-day
EventStart(start_dt, time) ==
    IF time # ""
    THEN [timed |-> TRUE,
          dtstart |-> [year |-> start_dt.year, month |-> start_dt.month,
                       day |-> start_dt.day, hour |-> start_dt.hour,
                       minute |-> start_dt.minute, tz |-> TIMEZONE],
          duration |-> Some(60)]
    ELSE [timed |-> FALSE,
          dtstart |-> [year |-> start_dt.year, month |-> start_dt.month,
                       day |-> start_dt.day],
          duration |-> None]

\* (mutant) the summary with the activity type first
SummaryTypeFirst(description, activity_type) ==
    IF activity_type # "" THEN activity_type ELSE description

\* line 175: summary = description if description else activity_type
Summary(description, activity_type) ==
    IF description # "" THEN description ELSE activity_type

\* lines 160-215: None when the row is skipped by a continue, else the event
RowEvent(row, k) ==
    LET activity_type == Strip(DictGet(row, TypeKey, ""))
        description   == Strip(DictGet(row, "Description", ""))
        location      == Strip(DictGet(row, "Lieu", ""))
        date          == Strip(DictGet(row, "Date", ""))
        time          == Strip(DictGet(row, "Heure", ""))
        participants  == Strip(DictGet(row, "Participants", ""))
        summary       == Summary(description, activity_type)
        start_dt      == parse_datetime(date, time)
    IN  IF date = "" THEN None
        ELSE IF summary = "" THEN None
        ELSE IF start_dt = None THEN None
        ELSE LET st == EventStart(start_dt[1], time) IN
             Some([row |-> k,
                   summary |-> summary,
                   timed |-> st.timed,
                   dtstart |-> st.dtstart,
                   duration |-> st.duration,
                   location |-> IF location # "" THEN Some(location) ELSE None,
                   description |->
                       JoinLines(FullDescription(activity_type, description,
                                                 participants))])

(***************************************************************************)
(* generate_ical_files.main: the batch over the csv files.                 *)
(***************************************************************************)
\* main, lines 248-259: the next csv file; open or read fails (lines 154-155),
\* the except of line 228 returns False and the loop goes on
ReadFails ==
    /\ pc = "main" /\ remaining # << >>
    /\ remaining' = Tail(remaining)
    /\ results' = Append(results, [csv_path |-> Head(remaining),
                                  read_ok |-> FALSE, written |-> FALSE,
                                  returned |-> FALSE])
    /\ UNCHANGED << pc, lines, i, headers, current_row, rows, fields, r, cal >>

\* lines 154-156 and 81-85: the file is read, parse_csv_content starts
ReadSource ==
    /\ pc = "main" /\ remaining # << >>
    /\ \E content \in Contents : lines' = SplitLines(content)
    /\ i' = 1
    /\ headers' = None /\ current_row' = None /\ rows' = << >>
    /\ fields' = << >>
    /\ pc' = "parse"
    /\ UNCHANGED << remaining, results, r, cal >>

\* lines 86-88: a blank line
SkipBlank ==
    /\ pc = "parse" /\ i <= Len(lines)
    /\ Strip(lines[i]) = ""
    /\ i' = i + 1
    /\ UNCHANGED << pc, remaining, results, lines, headers, current_row, rows,
                    fields, r, cal >>

\* (mutant) the header line without the continue of line 120: it goes on to
\* line 127 and opens a row of its own
ReadHeaderFallsThrough ==
    /\ pc = "parse" /\ i <= Len(lines)
    /\ LET line == Strip(lines[i]) IN
       /\ line # "" /\ IsNewRow(line) /\ ~SplitRaises(line)
       /\ headers = None
       /\ rows' = CloseRow(rows, current_row)
       /\ fields' = SplitFields(line)
       /\ headers' = Some(SplitFields(line))
       /\ current_row' = Some(MakeRow(SplitFields(line), SplitFields(line)))
    /\ i' = i + 1
    /\ UNCHANGED << pc, remaining, results, lines, r, cal >>

\* lines 95-120: the first new-row line is the header
ReadHeader ==
    /\ pc = "parse" /\ i <= Len(lines)
    /\ LET line == Strip(lines[i]) IN
       /\ line # "" /\ IsNewRow(line) /\ ~SplitRaises(line)
       /\ headers = None
       /\ rows' = CloseRow(rows, current_row)
       /\ fields' = SplitFields(line)
       /\ headers' = Some(SplitFields(line))
    /\ i' = i + 1
    /\ UNCHANGED << pc, remaining, results, lines, current_row, r, cal >>

\* lines 95-127: a later new-row line closes the open row and opens its own
OpenRow ==
    /\ pc = "parse" /\ i <= Len(lines)
    /\ LET line == Strip(lines[i]) IN
       /\ line # "" /\ IsNewRow(line) /\ ~SplitRaises(line)
       /\ headers # None
       /\ rows' = CloseRow(rows, current_row)
       /\ fields' = PadFields(SplitFields(line), Len(headers[1]))
       /\ current_row' = Some(MakeRow(headers[1], SplitFields(line)))
    /\ i' = i + 1
    /\ UNCHANGED << pc, remaining, results, lines, headers, r, cal >>

\* (mutant) lines 128-136 with the line also added to the row closed last
ContinuationTouchesClosed ==
    /\ pc = "parse" /\ i <= Len(lines)
    /\ LET line == Strip(lines[i]) IN
       /\ line # "" /\ ~IsNewRow(line)
       /\ current_row # None /\ ~ContinuationRaises(line)
       /\ current_row' = Some(AppendContinuation(current_row[1], line))
       /\ rows' = IF rows = << >> THEN rows
                  ELSE [rows EXCEPT ![Len(rows)] = AppendContinuation(@, line)]
    /\ i' = i + 1
    /\ UNCHANGED << pc, remaining, results, lines, headers, fields, r, cal >>

\* lines 128-136: a continuation line while a row is open
Continuation ==
    /\ pc = "parse" /\ i <= Len(lines)
    /\ LET line == Strip(lines[i]) IN
       /\ line # "" /\ ~IsNewRow(line)
       /\ current_row # None /\ ~ContinuationRaises(line)
       /\ current_row' = Some(AppendContinuation(current_row[1], line))
    /\ i' = i + 1
    /\ UNCHANGED << pc, remaining, results, lines, headers, rows, fields, r,
                    cal >>

\* (mutant) lines 128-136 without the test of line 130: the line opens a row
\* that holds its text as Participants
DropContinuationOpens ==
    /\ pc = "parse" /\ i <= Len(lines)
    /\ LET line == Strip(lines[i]) IN
       /\ line # "" /\ ~IsNewRow(line)
       /\ current_row = None
       /\ current_row' = Some(DictSet(<< >>, "Participants",
                                      StripChars(line, {" ", "\""})))
    /\ i' = i + 1
    /\ UNCHANGED << pc, remaining, results, lines, headers, rows, fields, r,
                    cal >>

\* lines 128-130: a continuation line while no row is open
DropContinuation ==
    /\ pc = "parse" /\ i <= Len(lines)
    /\ LET line == Strip(lines[i]) IN
       /\ line # "" /\ ~IsNewRow(line)
       /\ current_row = None
    /\ i' = i + 1
    /\ UNCHANGED << pc, remaining, results, lines, headers, current_row, rows,
                    fields, r, cal >>

\* lines 109, 115, 134, 136: clean_html raises ValueError on the line; nothing
\* in parse_csv_content catches it, it reaches the except of line 228
ParseRaises ==
    /\ pc = "parse" /\ i <= Len(lines)
    /\ LET line == Strip(lines[i]) IN
       /\ line # ""
       /\ IF IsNewRow(line) THEN SplitRaises(line)
          ELSE current_row # None /\ ContinuationRaises(line)
    /\ pc' = "except"
    /\ UNCHANGED << remaining, results, lines, i, headers, current_row, rows,
                    fields, r, cal >>

\* lines 228-230: the error is logged, convert_csv_to_ical returns False
ExceptReturn ==
    /\ pc = "except"
    /\ results' = Append(results, [csv_path |-> Head(remaining),
                                  read_ok |-> TRUE, written |-> FALSE,
                                  returned |-> FALSE])
    /\ remaining' = Tail(remaining)
    /\ pc' = "main"
    /\ lines' = << >> /\ i' = 1
    /\ headers' = None /\ current_row' = None /\ rows' = << >>
    /\ fields' = << >> /\ r' = 1 /\ cal' = << >>

\* (mutant) the return of line 142 without lines 139-140: the row that is
\* still open is not appended
ParseReturnDropsLast ==
    /\ pc = "parse" /\ i > Len(lines)
    /\ rows' = rows
    /\ pc' = "convert"
    /\ r' = 1 /\ cal' = << >>
    /\ UNCHANGED << remaining, results, lines, i, headers, current_row, fields >>

\* lines 138-142 and 156-158: the last row is added, parse_csv_content returns
ParseReturn ==
    /\ pc = "parse" /\ i > Len(lines)
    /\ rows' = CloseRow(rows, current_row)
    /\ pc' = "convert"
    /\ r' = 1 /\ cal' = << >>
    /\ UNCHANGED << remaining, results, lines, i, headers, current_row, fields >>

\* lines 159-216: one row of the loop of convert_csv_to_ical
ConvertRow ==
    /\ pc = "convert" /\ r <= Len(rows)
    /\ LET event == RowEvent(rows[r], r) IN
       cal' = IF event = None THEN cal ELSE Append(cal, event[1])
    /\ r' = r + 1
    /\ UNCHANGED << pc, remaining, results, lines, i, headers, current_row,
                    rows, fields >>

\* (mutant) lines 220-223 without the test of line 218: the file is written
\* and True returned whether or not an event was added
WriteFileAlways ==
    /\ pc = "convert" /\ r > Len(rows)
    /\ results' = Append(results, [csv_path |-> Head(remaining),
                                  read_ok |-> TRUE, written |-> TRUE,
                                  returned |-> TRUE])
    /\ remaining' = Tail(remaining)
    /\ pc' = "main"
    /\ lines' = << >> /\ i' = 1
    /\ headers' = None /\ current_row' = None /\ rows' = << >>
    /\ fields' = << >> /\ r' = 1 /\ cal' = << >>

\* lines 218-226: when an event was added the file is written and True
\* returned, else nothing is written and False returned; back to main
WriteFile ==
    /\ pc = "convert" /\ r > Len(rows)
    /\ results' = Append(results, [csv_path |-> Head(remaining),
                                  read_ok |-> TRUE, written |-> cal # << >>,
                                  returned |-> cal # << >>])
    /\ remaining' = Tail(remaining)
    /\ pc' = "main"
    /\ lines' = << >> /\ i' = 1
    /\ headers' = None /\ current_row' = None /\ rows' = << >>
    /\ fields' = << >> /\ r' = 1 /\ cal' = << >>

\* main returns after the last csv file
MainReturn ==
    /\ pc = "main" /\ remaining = << >>
    /\ pc' = "done"
    /\ UNCHANGED << remaining, results, lines, i, headers, current_row, rows,
                    fields, r, cal >>

IcalInit ==
    /\ pc = "main" /\ remaining = CsvFiles /\ results = << >>
    /\ lines = << >> /\ i = 1
    /\ headers = None /\ current_row = None /\ rows = << >>
    /\ fields = << >> /\ r = 1 /\ cal = << >>

IcalIdle ==
    /\ pc = "idle" /\ remaining = << >> /\ results = << >>
    /\ lines = << >> /\ i = 1
    /\ headers = None /\ current_row = None /\ rows = << >>
    /\ fields = << >> /\ r = 1 /\ cal = << >>

(***************************************************************************)
(* generate_daily_summaries.py: get_minister_name, read_agenda_file, main. *)
(***************************************************************************)
Lowers == "abcdefghijklmnopqrstuvwxyz"

Uppers == "ABCDEFGHIJKLMNOPQRSTUVWXYZ"

IsLetter(c) == Contains(Lowers, c) \/ Contains(Uppers, c)

Upper(c) ==
    IF Contains(Lowers, c) THEN CharAt(Uppers, FindChar(Lowers, 1, {c})) ELSE c

Lower(c) ==
    IF Contains(Uppers, c) THEN CharAt(Lowers, FindChar(Uppers, 1, {c})) ELSE c

\* str.title(): a letter after a letter is lowered, any other letter raised
RECURSIVE TitleFrom(_, _)
TitleFrom(s, k) ==
    IF k > Len(s) THEN ""
    ELSE (IF k > 1 /\ IsLetter(CharAt(s, k - 1)) THEN Lower(CharAt(s, k))
          ELSE Upper(CharAt(s, k))) \o TitleFrom(s, k + 1)

\* position of the last character of cs in s, 0 when there is none
FindLast(s, cs) ==
    LET P == Positions(s, cs) IN
    IF P = {} THEN 0 ELSE CHOOSE m \in P : \A q \in P : m >= q

\* lines 18-22: basename, splitext, hyphens to spaces, title case
get_minister_name(filename) ==
    LET base == SubSeq(filename, FindLast(filename, {"/"}) + 1, Len(filename))
        dot  == FindLast(base, {"."})
        name == IF dot > 1 THEN SubSeq(base, 1, dot - 1) ELSE base
    IN  TitleFrom(Replace(name, "-", " "), 1)

\* p in s
ContainsStr(s, p) == \E k \in 1..Len(s) : StartsWithAt(s, k, p)

\* line 28
StatusOf(path) == IF ContainsStr(path, "/active/") THEN "active" ELSE "inactive"

\* the data rows (lists of fields) the csv reader yields in the model
DataRows ==
    { << "Visite", "<p>Avis</p>", "Ici", "05-03-2024", "14h30", "Al\n\nBo" >>,
      << "Visite", "", "Ici", "05-03-2024", "" >>,
      << "Visite", "Avis", "Ici", "05-03-2024", "abc", "Al" >>,
      << "Visite", "Avis", "Ici", "n/a", "14h30", "Al" >>,
      << "Visite", "Avis", "Ici", "06-03-2024" >>,
      << HostileRef, "Avis", "Ici", "06-03-2024", "14h30", "Al" >>,
      << "Visite", "<p>Avis<br>important</p>", "<strong>Ici</strong>",
         "05-03-2024", "14h30", "Al<br>Bo" >> }

HeaderRow ==
    << "Type d'activite", "Description", "Lieu", "Date", "Heure", "Participants" >>

\* what the reader yields for a file: nothing (an empty file), or the header
\* row and at most MaxRows data rows
ReaderOutputs ==
    { << >> } \cup
    { << HeaderRow >> \o seq :
         seq \in UNION { [1..n -> DataRows] : n \in 0..MaxRows } }

\* lines 35-40: html.unescape raises on a field of the row, outside the try
RowRaises(row) ==
    \/ UnescapeRaises(row[1])
    \/ UnescapeRaises(Strip(Replace(Replace(row[2], "<p>", ""), "</p>", "")))
    \/ UnescapeRaises(row[3])
    \/ Len(row) > 5 /\ UnescapeRaises(row[6])

\* lines 35-54: the activity of a row with at least 5 fields; None when
\* parse_date or parse_time raises ValueError (lines 55-56)
RowActivity(row, path, k) ==
    LET activity_type == HtmlUnescape(row[1])
        description   ==
            HtmlUnescape(Strip(Replace(Replace(row[2], "<p>", ""), "</p>", "")))
        location      == HtmlUnescape(row[3])
        participants  == IF Len(row) > 5 THEN HtmlUnescape(row[6]) ELSE ""
        date          == parse_date(row[4])
        time          ==
            IF row[5] # "" THEN parse_time(row[5]) ELSE Returned(None)
    IN  IF date.raised THEN None
        ELSE IF time.raised THEN None
        ELSE Some([row |-> k,
                   type |-> activity_type,
                   description |-> description,
                   location |-> location,
                   date |-> date.value,
                   time |-> time.value,
                   participants |-> participants,
                   minister |-> get_minister_name(path),
                   minister_status |-> StatusOf(path)])

\* main, lines 124-132, and line 30: open() or the decoding of the file
\* raises; nothing catches it, main ends with the exception
OpenRaises ==
    /\ dpc = "main" /\ dremaining # << >>
    /\ dpc' = "aborted"
    /\ filepath' = Head(dremaining)
    /\ dremaining' = Tail(dremaining)
    /\ UNCHANGED << reader, rownum, activities, all_activities >>

\* lines 26-32: the file opens; next(reader) skips the header, or raises
\* StopIteration on a file without any row, which nothing catches
OpenFile ==
    /\ dpc = "main" /\ dremaining # << >>
    /\ filepath' = Head(dremaining)
    /\ dremaining' = Tail(dremaining)
    /\ \E out \in ReaderOutputs :
          /\ reader' = out
          /\ dpc' = IF out = << >> THEN "aborted" ELSE "read"
    /\ rownum' = 2
    /\ activities' = << >>
    /\ UNCHANGED all_activities

\* (mutant) the row loop without the length test of line 34: row[3] or row[4]
\* raises IndexError on a short row
ShortRowRaises ==
    /\ dpc = "read" /\ rownum <= Len(reader)
    /\ Len(reader[rownum]) < 5
    /\ dpc' = "aborted"
    /\ UNCHANGED << dremaining, filepath, reader, rownum, activities,
                    all_activities >>

\* lines 33-34: a row with fewer than 5 fields
ShortRow ==
    /\ dpc = "read" /\ rownum <= Len(reader)
    /\ Len(reader[rownum]) < 5
    /\ rownum' = rownum + 1
    /\ UNCHANGED << dpc, dremaining, filepath, reader, activities,
                    all_activities >>

\* (mutant) the except of lines 55-56 with break in place of continue
ReadRowBreaks ==
    /\ dpc = "read" /\ rownum <= Len(reader)
    /\ Len(reader[rownum]) >= 5 /\ ~RowRaises(reader[rownum])
    /\ LET a == RowActivity(reader[rownum], filepath, rownum) IN
       /\ activities' = IF a = None THEN activities ELSE Append(activities, a[1])
       /\ rownum' = IF a = None THEN Len(reader) + 1 ELSE rownum + 1
    /\ UNCHANGED << dpc, dremaining, filepath, reader, all_activities >>

\* lines 33-56: a row with at least 5 fields
ReadRow ==
    /\ dpc = "read" /\ rownum <= Len(reader)
    /\ Len(reader[rownum]) >= 5 /\ ~RowRaises(reader[rownum])
    /\ LET a == RowActivity(reader[rownum], filepath, rownum) IN
       activities' = IF a = None THEN activities ELSE Append(activities, a[1])
    /\ rownum' = rownum + 1
    /\ UNCHANGED << dpc, dremaining, filepath, reader, all_activities >>

\* lines 35-40: html.unescape raises ValueError before the try of line 42;
\* it leaves read_agenda_file and main
UnescapeFails ==
    /\ dpc = "read" /\ rownum <= Len(reader)
    /\ Len(reader[rownum]) >= 5 /\ RowRaises(reader[rownum])
    /\ dpc' = "aborted"
    /\ UNCHANGED << dremaining, filepath, reader, rownum, activities,
                    all_activities >>

\* line 57 and main, lines 125-126 / 131-132
ReturnActivities ==
    /\ dpc = "read" /\ rownum > Len(reader)
    /\ all_activities' = all_activities \o activities
    /\ dpc' = "main"
    /\ reader' = << >> /\ rownum' = 1 /\ activities' = << >>
    /\ UNCHANGED << dremaining, filepath >>

\* every csv file has been read
AllRead ==
    /\ dpc = "main" /\ dremaining = << >>
    /\ dpc' = "done"
    /\ UNCHANGED << dremaining, filepath, reader, rownum, activities,
                    all_activities >>

DailyInit ==
    /\ dpc = "main" /\ dremaining = CsvFiles /\ filepath = ""
    /\ reader = << >> /\ rownum = 1
    /\ activities = << >> /\ all_activities = << >>

DailyIdle ==
    /\ dpc = "idle" /\ dremaining = << >> /\ filepath = ""
    /\ reader = << >> /\ rownum = 1
    /\ activities = << >> /\ all_activities = << >>

(***************************************************************************)
(* generate_daily_summaries.py: the daily summaries and the loop of main   *)
(* that writes them.                                                       *)
(***************************************************************************)
\* a comparison of the sort raises TypeError
TypeError == [raised |-> TRUE, error |-> "TypeError"]

\* datetime.date(): the calendar date of a datetime
DateOf(dt) == [year |-> dt.year, month |-> dt.month, day |-> dt.day]

\* date - timedelta(days=1)
PrevDay(d) ==
    IF d.day > 1 THEN [d EXCEPT !.day = @ - 1]
    ELSE IF d.month > 1
         THEN [year |-> d.year, month |-> d.month - 1,
               day |-> DaysInMonth(d.month - 1, d.year)]
         ELSE [year |-> d.year - 1, month |-> 12, day |-> 31]

\* line 139: today - timedelta(days=n)
RECURSIVE DaysBefore(_, _)
DaysBefore(d, n) == IF n = 0 THEN d ELSE DaysBefore(PrevDay(d), n - 1)

DigitChars == "0123456789"

\* str(n) for n >= 0
RECURSIVE IntToStr(_)
IntToStr(n) ==
    IF n < 10 THEN CharAt(DigitChars, n + 1)
    ELSE IntToStr(n \div 10) \o CharAt(DigitChars, (n % 10) + 1)

\* a number of two digits at least, zero padded
Pad2(n) == IF n < 10 THEN "0" \o IntToStr(n) ELSE IntToStr(n)

MonthNames ==
    << "January", "February", "March", "April", "May", "June", "July",
       "August", "September", "October", "November", "December" >>

\* date.strftime('%Y-%m-%d')
StrftimeYmd(d) == IntToStr(d.year) \o "-" \o Pad2(d.month) \o "-" \o Pad2(d.day)

\* date.strftime('%d %B %Y')
StrftimeLong(d) ==
    Pad2(d.day) \o " " \o MonthNames[d.month] \o " " \o IntToStr(d.year)

\* time.strftime('%H:%M')
StrftimeHM(t) == Pad2(t.hour) \o ":" \o Pad2(t.minute)

\* the text of lines 71 and 99, its accented letters written in ASCII
NoTime == "Heure non specifiee"

\* (mutant) no filter on the date: every activity counts for every day
DayActivitiesAll(acts, date) == acts

\* lines 61, 90: the activities of the day, in the order of the list
RECURSIVE DayActivities(_, _)
DayActivities(acts, date) ==
    IF acts = << >> THEN << >>
    ELSE (IF DateOf(Head(acts).date) = date THEN << Head(acts) >> ELSE << >>)
         \o DayActivities(Tail(acts), date)

\* (mutant) the sort key without its first component: key=lambda x: x['time']
SortKeyTimeOnly(x) == << FALSE, x.time >>

\* lines 68, 94: key=lambda x: (x['time'] is None, x['time'])
SortKey(x) == << x.time = None, x.time >>

\* the order of two datetime.time values
TimeOrder(t, u) ==
    IF t.hour # u.hour THEN (IF t.hour < u.hour THEN "lt" ELSE "gt")
    ELSE IF t.minute # u.minute THEN (IF t.minute < u.minute THEN "lt" ELSE "gt")
    ELSE "eq"

\* the order of two keys as Python compares tuples: the first components
\* that differ decide (False < True); equal components are passed over with
\* ==, so two None never meet '<'; None against a time raises TypeError
KeyOrder(ka, kb) ==
    IF ka[1] # kb[1] THEN (IF kb[1] THEN "lt" ELSE "gt")
    ELSE IF ka[2] = kb[2] THEN "eq"
    ELSE IF ka[2] = None \/ kb[2] = None THEN "raise"
    ELSE TimeOrder(ka[2][1], kb[2][1])

\* list.sort raises: the model takes any pair of keys that cannot be ordered
\* as one the sort compares
SortRaises(acts) ==
    \E a, b \in 1..Len(acts) :
        a < b /\ KeyOrder(SortKey(acts[b]), SortKey(acts[a])) = "raise"

\* x put into a sorted list, behind every element that is not greater
RECURSIVE InsertSorted(_, _)
InsertSorted(s, x) ==
    IF s = << >> THEN << x >>
    ELSE IF KeyOrder(SortKey(x), SortKey(Head(s))) = "lt" THEN << x >> \o s
         ELSE << Head(s) >> \o InsertSorted(Tail(s), x)

\* lines 68, 94: list.sort, a stable sort
RECURSIVE SortedByTime(_)
SortedByTime(acts) ==
    IF acts = << >> THEN << >>
    ELSE InsertSorted(SortedByTime(SubSeq(acts, 1, Len(acts) - 1)),
                      acts[Len(acts)])

\* lines 71, 99
TimeText(activity) ==
    IF activity.time # None THEN StrftimeHM(activity.time[1]) ELSE NoTime

\* lines 73, 102: activity['description'] or activity['type']
DescOrType(activity) ==
    IF activity.description # "" THEN activity.description ELSE activity.type

\* lines 70-84: the lines of the activities
RECURSIVE ActivityLines(_)
ActivityLines(acts) ==
    IF acts = << >> THEN << >>
    ELSE LET activity == Head(acts) IN
         << "## " \o TimeText(activity) \o " - " \o activity.minister,
            "**" \o DescOrType(activity) \o "**",
            "*Lieu: " \o activity.location \o "*" >>
         \o (IF activity.participants # ""
             THEN << "\nParticipants:", activity.participants >> ELSE << >>)
         \o << "\n---\n" >>
         \o ActivityLines(Tail(acts))

\* lines 65, 70-86: the document of the sorted activities of the day
MarkdownOf(sorted, date) ==
    JoinLines(<< "# Agenda des ministres - " \o StrftimeLong(date) \o "\n" >>
              \o ActivityLines(sorted))

\* lines 98-105
JsonEvent(activity) ==
    [time |-> TimeText(activity),
     minister |-> activity.minister,
     minister_status |-> activity.minister_status,
     description |-> DescOrType(activity),
     location |-> activity.location,
     participants |-> activity.participants]

\* lines 96-107
JsonOf(sorted, date) ==
    [date |-> StrftimeYmd(date),
     events |-> [j \in 1..Len(sorted) |-> JsonEvent(sorted[j])]]

\* lines 59-86: None, the document, or the TypeError of the sort
generate_daily_summary_markdown(acts, date) ==
    LET day_activities == DayActivities(acts, date) IN
    IF day_activities = << >> THEN Returned(None)
    ELSE IF SortRaises(day_activities) THEN TypeError
    ELSE Returned(Some(MarkdownOf(SortedByTime(day_activities), date)))

\* lines 88-107: None, the document, or the TypeError of the sort
generate_daily_summary_json(acts, date) ==
    LET day_activities == DayActivities(acts, date) IN
    IF day_activities = << >> THEN Returned(None)
    ELSE IF SortRaises(day_activities) THEN TypeError
    ELSE Returned(Some(JsonOf(SortedByTime(day_activities), date)))

\* lines 109-112: every summary main collects is a document, none is None
generate_weekly_summary(daily_summaries) == [week |-> daily_summaries]

\* rows of agenda files: two at 9h00, one at 14h30 and two without a time on
\* 05-03-2024, one on 04-03-2024
SummaryRows ==
    << << "Visite", "Conseil", "Ici", "05-03-2024", "9h00", "" >>,
       << "Visite", "Caucus", "Ici", "05-03-2024", "14h30", "Al" >>,
       << "Visite", "Comite", "La", "05-03-2024", "9h00", "" >>,
       << "Visite", "", "Ici", "05-03-2024", "", "" >>,
       << "Tournee", "Gala", "La", "05-03-2024", "", "Bo" >>,
       << "Visite", "Avis", "Ici", "04-03-2024", "9h00", "" >> >>

\* the Activities read_agenda_file builds from them
SummaryActivities ==
    { RowActivity(SummaryRows[k], CsvFiles[1], k + 1)[1] :
         k \in 1..Len(SummaryRows) }

\* all_activities when the loops of lines 124-132 are over
ActivityLists ==
    UNION { [1..n -> SummaryActivities] : n \in 0..MaxActs }

\* datetime.now() of line 135, as a calendar date
Todays ==
    { [year |-> 2024, month |-> 3, day |-> 5],
      [year |-> 2024, month |-> 3, day |-> 6],
      [year |-> 2024, month |-> 3, day |-> 1] }

\* lines 138-154: one day of the loop; the summaries that are not None are
\* written; a TypeError of the sort ends main
SummarizeDay ==
    /\ spc = "days" /\ day_i < MaxDays
    /\ LET date == DaysBefore(today, day_i)
           markdown_summary == generate_daily_summary_markdown(all_activities, date)
           daily_json == generate_daily_summary_json(all_activities, date)
       IN  IF markdown_summary.raised
           THEN /\ spc' = "aborted"
                /\ UNCHANGED << day_i, md_files, json_files, all_daily_json >>
           ELSE /\ md_files' =
                      IF markdown_summary.value # None
                      THEN Append(md_files,
                                  [name |-> StrftimeYmd(date) \o ".md",
                                   content |-> markdown_summary.value[1]])
                      ELSE md_files
                /\ IF daily_json.raised
                   THEN /\ spc' = "aborted"
                        /\ UNCHANGED << day_i, json_files, all_daily_json >>
                   ELSE /\ json_files' =
                              IF daily_json.value # None
                              THEN Append(json_files,
                                          [name |-> StrftimeYmd(date) \o ".json",
                                           content |-> daily_json.value[1]])
                              ELSE json_files
                        /\ all_daily_json' =
                              IF daily_json.value # None
                              THEN Append(all_daily_json, daily_json.value[1])
                              ELSE all_daily_json
                        /\ day_i' = day_i + 1
                        /\ spc' = spc
    /\ UNCHANGED << today, weekly >>

\* lines 156-158: the weekly summary is dumped, main returns
WriteWeekly ==
    /\ spc = "days" /\ day_i = MaxDays
    /\ weekly' = Some(generate_weekly_summary(all_daily_json))
    /\ spc' = "done"
    /\ UNCHANGED << today, day_i, md_files, json_files, all_daily_json >>

\* lines 134-135: the agendas are read, the summary loop starts
SummaryInit ==
    /\ dpc = "done" /\ dremaining = << >> /\ filepath = ""
    /\ reader = << >> /\ rownum = 1 /\ activities = << >>
    /\ all_activities \in ActivityLists
    /\ spc = "days" /\ today \in Todays /\ day_i = 0
    /\ md_files = << >> /\ json_files = << >> /\ all_daily_json = << >>
    /\ weekly = None

SummaryIdle ==
    /\ spc = "idle" /\ today = None /\ day_i = 0
    /\ md_files = << >> /\ json_files = << >> /\ all_daily_json = << >>
    /\ weekly = None

(***************************************************************************)
(* The pure functions, called on inputs drawn from the sets below.         *)
(***************************************************************************)
DateStrs ==
    { "05-03-2024", "05-03-2024 (mardi)", "29-02-2024", "31-02-2024",
      "5-3-2024", "not-a-date", "05-13-2024", "" }

TimeStrs ==
    { "", "14h30", "0h00", "14", "14h", "9h5", "abc", "25h00", "12h99",
      "14H30", "23h59", "1h2h3" }

\* the strings of at most n characters of the alphabet
RECURSIVE StringsUpTo(_, _)
StringsUpTo(alphabet, n) ==
    IF n = 0 THEN { "" }
    ELSE LET shorter == StringsUpTo(alphabet, n - 1) IN
         shorter \cup { t \o c : t \in shorter, c \in alphabet }

\* arguments of clean_html: every short text of angle brackets and a letter,
\* the examples of the documentation, tags that only appear once the entities
\* are decoded or a known tag is taken out, nested and overlapping brackets,
\* and a character reference of too many digits
HtmlTexts ==
    StringsUpTo({ "<", ">", "b" }, MaxTextLen)
    \cup { "<p>A</p><p>B</p>", "&lt;b&gt;", "&lt;<b>b&gt;", "&amp;lt;b&amp;gt;",
           "<<p>b>", "<s<sup>up>x", "<<b>>", "<a<b>c>", "<><b>", "a<<>b>c",
           "Al<br>Bo<br/><br />Cy", "x < y > z",
           HostileRef }

NotCalled == [fn |-> "none"]

PureInit ==
    /\ date_str \in DateStrs /\ time_str \in TimeStrs
    /\ html_text \in {None} \cup { Some(t) : t \in HtmlTexts }
    /\ result = NotCalled

PureIdle ==
    /\ date_str = "" /\ time_str = "" /\ html_text = None
    /\ result = [fn |-> "idle"]

CallParseDatetime ==
    /\ result = NotCalled
    /\ result' = [fn |-> "parse_datetime",
                  value |-> parse_datetime(date_str, time_str)]
    /\ UNCHANGED << date_str, time_str, html_text >>

CallParseDate ==
    /\ result = NotCalled
    /\ result' = [fn |-> "parse_date", value |-> parse_date(date_str)]
    /\ UNCHANGED << date_str, time_str, html_text >>

CallParseTime ==
    /\ result = NotCalled
    /\ result' = [fn |-> "parse_time", value |-> parse_time(time_str)]
    /\ UNCHANGED << date_str, time_str, html_text >>

\* lines 23-45: None or "" gives "", line 25; html.unescape raises, line 29;
\* or the cleaned text is returned
CallCleanHtml ==
    /\ result = NotCalled
    /\ result' = [fn |-> "clean_html",
                  value |-> IF html_text = None THEN Returned("")
                            ELSE IF CleanHtmlRaises(html_text[1]) THEN ValueError
                            ELSE Returned(clean_html(html_text[1]))]
    /\ UNCHANGED << date_str, time_str, html_text >>

(***************************************************************************)
(* The two parsers called again and again: parse_csv_content               *)
(* (generate_ical_files.py) and read_agenda_file                           *)
(* (generate_daily_summaries.py), each call on any source, the calls that  *)
(* are over kept in returns.                                               *)
(***************************************************************************)
\* calls made in one run
MaxCalls == 3

\* source texts handed to parse_csv_content. The first: a header with a
\* Participants column, a row, two continuation lines (the second with two
\* quotes and no semicolon), a row longer than the header with a semicolon
\* inside quotes and empty Participants, a continuation line with a semicolon
\* and no quote. The second: a line before the header, a blank line, a header
\* without Participants, a line with one quote and a semicolon before any
\* row, a row with a bad time, a line that cleans to nothing. The third: the
\* second without the two lines no row was open for. The fourth: semicolons
\* inside quotes in the header and in a row, after a row whose last quote is
\* not closed. The fifth: a continuation line that clean_html raises on
ReparseContents ==
    { JoinLines(<< "\"Date\";\"Heure\";\"Description\";\"Participants\"",
                   "\"05-03-2024\";\"14h30\";\"<p>Avis</p>\";\"Al<br>Bo\"",
                   "Carol",
                   "\"Dave\"",
                   "\"06-03-2024\";\"\";\"A;B\";\"\";\"extra\"",
                   "a;b" >>),
      JoinLines(<< "Carol", "  ",
                   "\"Date\";\"Heure\";\"Type d'activite\"",
                   "Eve\";x",
                   "\"05-03-2024\";\"abc\";\"Visite\"",
                   "<br>" >>),
      JoinLines(<< "  ",
                   "\"Date\";\"Heure\";\"Type d'activite\"",
                   "\"05-03-2024\";\"abc\";\"Visite\"",
                   "<br>" >>),
      JoinLines(<< "\"Date;Jour\";\"Heure\";\"Description\"",
                   "\"07-03-2024\";\"x;y",
                   "\"08-03-2024\";\"\";\"Al;Bo;Cy\";\"z\"" >>),
      JoinLines(<< "\"Date\";\"Heure\";\"Description\"",
                   "\"05-03-2024\";\"14h30\";\"Avis\"",
                   HostileRef >>) }

\* what the reader yields for the files handed to read_agenda_file: an empty
\* file; a good row and a short one; a row with a bad date and a good one; a
\* row html.unescape raises on
ReparseReaders ==
    { << >>,
      << HeaderRow,
         << "Visite", "<p>Avis</p>", "Ici", "05-03-2024", "14h30", "Al\n\nBo" >>,
         << "Visite", "Avis", "Ici", "06-03-2024" >> >>,
      << HeaderRow,
         << "Visite", "Avis", "Ici", "n/a", "14h30", "Al" >>,
         << "Visite", "", "Ici", "05-03-2024", "" >> >>,
      << HeaderRow,
         << HostileRef, "Avis", "Ici", "06-03-2024", "14h30", "Al" >> >> }

\* (mutant) parse_csv_content with headers kept from the call before, as a
\* module-level list would be, in place of the local of line 83
CallParseKeepsHeaders ==
    /\ pc = "caller" /\ dpc = "caller" /\ Len(returns) < MaxCalls
    /\ \E content \in ReparseContents : lines' = SplitLines(content)
    /\ i' = 1
    /\ current_row' = None /\ rows' = << >>
    /\ fields' = << >>
    /\ pc' = "parse"
    /\ UNCHANGED << headers, remaining, results, r, cal, dailyVars, returns >>

\* lines 79-85: parse_csv_content is called on a source text; rows,
\* current_row and headers are its locals
CallParse ==
    /\ pc = "caller" /\ dpc = "caller" /\ Len(returns) < MaxCalls
    /\ \E content \in ReparseContents : lines' = SplitLines(content)
    /\ i' = 1
    /\ headers' = None /\ current_row' = None /\ rows' = << >>
    /\ fields' = << >>
    /\ pc' = "parse"
    /\ UNCHANGED << remaining, results, r, cal, dailyVars, returns >>

\* line 142: return headers, rows
ParseReturned ==
    /\ pc = "convert"
    /\ returns' = Append(returns, [fn |-> "parse_csv_content",
                                  source |-> lines,
                                  raised |-> FALSE,
                                  value |-> << headers, rows >>])
    /\ pc' = "caller"
    /\ UNCHANGED << remaining, results, lines, i, headers, current_row, rows,
                    fields, r, cal, dailyVars >>

\* the ValueError of clean_html leaves parse_csv_content
ParseRaised ==
    /\ pc = "except"
    /\ returns' = Append(returns, [fn |-> "parse_csv_content",
                                  source |-> lines,
                                  raised |-> TRUE,
                                  value |-> << >>])
    /\ pc' = "caller"
    /\ UNCHANGED << remaining, results, lines, i, headers, current_row, rows,
                    fields, r, cal, dailyVars >>

\* lines 24-32: read_agenda_file is called on a file; activities is its local
CallRead ==
    /\ pc = "caller" /\ dpc = "caller" /\ Len(returns) < MaxCalls
    /\ \E path \in { CsvFiles[k] : k \in 1..Len(CsvFiles) } : filepath' = path
    /\ \E out \in ReparseReaders :
          /\ reader' = out
          /\ dpc' = IF out = << >> THEN "aborted" ELSE "read"
    /\ rownum' = 2
    /\ activities' = << >>
    /\ UNCHANGED << dremaining, all_activities, icalVars, returns >>

\* line 57: return activities
ReadReturned ==
    /\ dpc = "read" /\ rownum > Len(reader)
    /\ returns' = Append(returns, [fn |-> "read_agenda_file",
                                  source |-> << filepath, reader >>,
                                  raised |-> FALSE,
                                  value |-> activities])
    /\ dpc' = "caller"
    /\ UNCHANGED << dremaining, filepath, reader, rownum, activities,
                    all_activities, icalVars >>

\* the StopIteration of line 32 or the ValueError of lines 35-40 leaves
\* read_agenda_file
ReadRaised ==
    /\ dpc = "aborted"
    /\ returns' = Append(returns, [fn |-> "read_agenda_file",
                                  source |-> << filepath, reader >>,
                                  raised |-> TRUE,
                                  value |-> << >>])
    /\ dpc' = "caller"
    /\ UNCHANGED << dremaining, filepath, reader, rownum, activities,
                    all_activities, icalVars >>

\* no call yet: the locals of the two parsers do not exist
CallsInit ==
    /\ pc = "caller" /\ remaining = << >> /\ results = << >>
    /\ lines = << >> /\ i = 1
    /\ headers = None /\ current_row = None /\ rows = << >>
    /\ fields = << >> /\ r = 1 /\ cal = << >>
    /\ dpc = "caller" /\ dremaining = << >> /\ filepath = ""
    /\ reader = << >> /\ rownum = 1
    /\ activities = << >> /\ all_activities = << >>
    /\ returns = << >>

NoCalls == returns = << >>

(***************************************************************************)
(* Specifications: the iCal batch, the daily-summary batch, the functions, *)
(* the summary loop, the repeated calls of the parsers.                    *)
(***************************************************************************)
Init == IcalInit /\ DailyIdle /\ PureIdle /\ SummaryIdle /\ NoCalls

Next ==
    \/ (ReadFails /\ UNCHANGED << dailyVars, pureVars, summaryVars, callVars >>)
    \/ (ReadSource /\ UNCHANGED << dailyVars, pureVars, summaryVars, callVars >>)
    \/ (SkipBlank /\ UNCHANGED << dailyVars, pureVars, summaryVars, callVars >>)
    \/ (ReadHeader /\ UNCHANGED << dailyVars, pureVars, summaryVars, callVars >>)
    \/ (OpenRow /\ UNCHANGED << dailyVars, pureVars, summaryVars, callVars >>)
    \/ (Continuation /\ UNCHANGED << dailyVars, pureVars, summaryVars, callVars >>)
    \/ (DropContinuation /\ UNCHANGED << dailyVars, pureVars, summaryVars, callVars >>)
    \/ (ParseRaises /\ UNCHANGED << dailyVars, pureVars, summaryVars, callVars >>)
    \/ (ExceptReturn /\ UNCHANGED << dailyVars, pureVars, summaryVars, callVars >>)
    \/ (ParseReturn /\ UNCHANGED << dailyVars, pureVars, summaryVars, callVars >>)
    \/ (ConvertRow /\ UNCHANGED << dailyVars, pureVars, summaryVars, callVars >>)
    \/ (WriteFile /\ UNCHANGED << dailyVars, pureVars, summaryVars, callVars >>)
    \/ (MainReturn /\ UNCHANGED << dailyVars, pureVars, summaryVars, callVars >>)

Spec == Init /\ [][Next]_vars

DailyNext ==
    \/ (OpenRaises /\ UNCHANGED << icalVars, pureVars, summaryVars, callVars >>)
    \/ (OpenFile /\ UNCHANGED << icalVars, pureVars, summaryVars, callVars >>)
    \/ (ShortRow /\ UNCHANGED << icalVars, pureVars, summaryVars, callVars >>)
    \/ (ReadRow /\ UNCHANGED << icalVars, pureVars, summaryVars, callVars >>)
    \/ (UnescapeFails /\ UNCHANGED << icalVars, pureVars, summaryVars, callVars >>)
    \/ (ReturnActivities /\ UNCHANGED << icalVars, pureVars, summaryVars, callVars >>)
    \/ (AllRead /\ UNCHANGED << icalVars, pureVars, summaryVars, callVars >>)

DailyStart == IcalIdle /\ DailyInit /\ PureIdle /\ SummaryIdle /\ NoCalls

SpecDaily == DailyStart /\ [][DailyNext]_vars

PureNext ==
    \/ (CallParseDatetime /\ UNCHANGED << icalVars, dailyVars, summaryVars, callVars >>)
    \/ (CallParseDate /\ UNCHANGED << icalVars, dailyVars, summaryVars, callVars >>)
    \/ (CallParseTime /\ UNCHANGED << icalVars, dailyVars, summaryVars, callVars >>)
    \/ (CallCleanHtml /\ UNCHANGED << icalVars, dailyVars, summaryVars, callVars >>)

PureStart == IcalIdle /\ DailyIdle /\ PureInit /\ SummaryIdle /\ NoCalls

SpecPure == PureStart /\ [][PureNext]_vars

SummaryNext ==
    \/ (SummarizeDay /\ UNCHANGED << icalVars, dailyVars, pureVars, callVars >>)
    \/ (WriteWeekly /\ UNCHANGED << icalVars, dailyVars, pureVars, callVars >>)

SummaryStart == IcalIdle /\ SummaryInit /\ PureIdle /\ NoCalls

SpecSummary == SummaryStart /\ [][SummaryNext]_vars

CallsNext ==
    \/ (CallParse /\ UNCHANGED << pureVars, summaryVars >>)
    \/ (SkipBlank /\ UNCHANGED << dailyVars, pureVars, summaryVars, callVars >>)
    \/ (ReadHeader /\ UNCHANGED << dailyVars, pureVars, summaryVars, callVars >>)
    \/ (OpenRow /\ UNCHANGED << dailyVars, pureVars, summaryVars, callVars >>)
    \/ (Continuation /\ UNCHANGED << dailyVars, pureVars, summaryVars, callVars >>)
    \/ (DropContinuation /\ UNCHANGED << dailyVars, pureVars, summaryVars, callVars >>)
    \/ (ParseRaises /\ UNCHANGED << dailyVars, pureVars, summaryVars, callVars >>)
    \/ (ParseReturn /\ UNCHANGED << dailyVars, pureVars, summaryVars, callVars >>)
    \/ (ParseReturned /\ UNCHANGED << pureVars, summaryVars >>)
    \/ (ParseRaised /\ UNCHANGED << pureVars, summaryVars >>)
    \/ (CallRead /\ UNCHANGED << pureVars, summaryVars >>)
    \/ (ShortRow /\ UNCHANGED << icalVars, pureVars, summaryVars, callVars >>)
    \/ (ReadRow /\ UNCHANGED << icalVars, pureVars, summaryVars, callVars >>)
    \/ (UnescapeFails /\ UNCHANGED << icalVars, pureVars, summaryVars, callVars >>)
    \/ (ReadReturned /\ UNCHANGED << pureVars, summaryVars >>)
    \/ (ReadRaised /\ UNCHANGED << pureVars, summaryVars >>)

CallsStart == CallsInit /\ PureIdle /\ SummaryIdle

SpecCalls == CallsStart /\ [][CallsNext]_vars

(***************************************************************************)
(* Properties.                                                             *)
(***************************************************************************)
\* the date string starts with a DD-MM-YYYY run that is a calendar date
ValidLeadingDate(ds) ==
    DateRunMatch(ds) /\ StrptimeDate(SubSeq(ds, 1, 10)) # None

\* the date of that run, at 00:00
LeadingDate(ds) == StrptimeDate(SubSeq(ds, 1, 10))

\* the time string, once normalized, is an hour:minute of the 24-hour clock
ParsesAsTime(ts) ==
    LET t == NormalizeTime(ts) IN
    TimePatternMatch(t) /\ StrptimeTime(t, {":"}) # None

\* C1: parse_datetime, given a date string that starts with a valid
\* DD-MM-YYYY date and a non-empty time string that is no valid 24-hour
\* time, returns the date-only value of that date, never None.
C1_CorruptTimeKeepsDate ==
    ( /\ result.fn = "parse_datetime"
      /\ ValidLeadingDate(date_str)
      /\ time_str # "" /\ ~ParsesAsTime(time_str) )
    => result.value = LeadingDate(date_str)

\* the rows of the current file that read_agenda_file has gone through
ProcessedRows == IF dpc = "read" THEN 2..(rownum - 1) ELSE {}

\* the activities built from row k of the current file
ActivitiesOfRow(k) == {j \in 1..Len(activities) : activities[j].row = k}

\* C2: read_agenda_file keeps a row that has at least 5 fields, a parseable
\* date and a non-empty unparseable time: it yields exactly one Activity,
\* with the date set and no time.
C2_BadTimeRowKept ==
    \A k \in ProcessedRows :
        ( /\ Len(reader[k]) >= 5
          /\ ~parse_date(reader[k][4]).raised
          /\ reader[k][5] # "" /\ parse_time(reader[k][5]).raised )
        => /\ Cardinality(ActivitiesOfRow(k)) = 1
           /\ \A j \in ActivitiesOfRow(k) :
                 /\ activities[j].date = parse_date(reader[k][4]).value
                 /\ activities[j].time = None

\* the Heure text of the row an event was built from, as line 167 reads it
EventTime(e) == Strip(DictGet(rows[e.row], "Heure", ""))

\* the Date text of the row an event was built from, as line 166 reads it
EventDate(e) == Strip(DictGet(rows[e.row], "Date", ""))

\* C3: every event of convert_csv_to_ical has one of two shapes: when the
\* time of its row parsed, it starts at the date and that time in the target
\* timezone and lasts 1 hour; when the row has no time (empty, or unparseable
\* and fallen back to date-only), it starts on the bare date and has no
\* duration. No event is timed at 00:00 because its time failed to parse.
C3_TimedOnlyWhenTimeParsed ==
    pc = "convert" =>
    \A n \in 1..Len(cal) :
        LET e  == cal[n]
            d  == LeadingDate(EventDate(e))[1]
            ts == EventTime(e)
        IN  IF ts # "" /\ ParsesAsTime(ts)
            THEN LET t == StrptimeTime(NormalizeTime(ts), {":"})[1] IN
                 /\ e.timed
                 /\ e.dtstart = [year |-> d.year, month |-> d.month,
                                 day |-> d.day, hour |-> t.hour,
                                 minute |-> t.minute, tz |-> TIMEZONE]
                 /\ e.duration = Some(60)
            ELSE /\ ~e.timed
                 /\ e.dtstart = [year |-> d.year, month |-> d.month,
                                 day |-> d.day]
                 /\ e.duration = None

\* a newline-joined list of lines none of which is empty
NoEmptyLine(text) ==
    \A k \in 1..Len(SplitLines(text)) : SplitLines(text)[k] # ""

\* C4: in every row parse_csv_content returns, a non-empty Participants
\* value is a newline-joined list of cleaned lines none of which is empty (no
\* leading, trailing or doubled newline), whatever the continuation lines.
C4_ParticipantsNoEmptyLine ==
    pc = "convert" =>
    \A k \in 1..Len(rows) :
        LET p == DictGet(rows[k], "Participants", "") IN
        p # "" => NoEmptyLine(p)

\* C5: a source whose raw text cannot be read fails alone: neither batch
\* driver stops while csv files remain to be processed.
C5_ReadFailureKeepsBatch ==
    /\ pc = "done" => Len(results) = Len(CsvFiles)
    /\ dpc \in {"done", "aborted"} => dremaining = << >>

\* the physical line is classified as a new logical row (lines 86-95)
IsNewRowLine(raw) == Strip(raw) # "" /\ IsNewRow(Strip(raw))

\* the new-logical-row lines among the first n lines of the source
NewRowLines(n) == {j \in 1..n : IsNewRowLine(lines[j])}

\* a list of str
IsStrList(seq) == \A j \in 1..Len(seq) : seq[j] \in STRING

\* a dict from str to str
IsStrDict(d) == \A k \in DOMAIN d : k \in STRING /\ d[k] \in STRING

\* C6: parse_csv_content never raises, whatever the source text (empty, blank
\* lines only, no new-row line, unbalanced quotes, wrong column counts): it
\* returns a (headers, rows) pair, and a source from which no data row can be
\* parsed returns an empty rows list.
C6_ParseNeverRaises ==
    /\ pc # "except"
    /\ pc = "convert" =>
          /\ headers = None \/ IsStrList(headers[1])
          /\ \A k \in 1..Len(rows) : IsStrDict(rows[k])
          /\ NewRowLines(Len(lines)) = {} => headers = None
          /\ Cardinality(NewRowLines(Len(lines))) <= 1 => rows = << >>

\* C7: the first new-logical-row line becomes the header list and is never a
\* data row: the number of returned rows is the number of new-logical-row
\* lines minus one (zero when there is none); a header-only source gives none.
C7_HeaderConsumed ==
    pc = "convert" =>
    LET N == NewRowLines(Len(lines)) IN
    /\ Len(rows) = IF N = {} THEN 0 ELSE Cardinality(N) - 1
    /\ IF N = {} THEN headers = None
       ELSE headers = Some(SplitFields(Strip(lines[Nth(N, 1)])))

\* a returned parse of a source whose only new-row line is its header
C7_Witness ==
    /\ pc = "convert"
    /\ Cardinality(NewRowLines(Len(lines))) = 1
    /\ headers # None /\ rows = << >>

\* the header names of the source being parsed
HeaderSet == IF headers = None THEN {} ELSE {headers[1][j] : j \in 1..Len(headers[1])}

\* C8: the key set of every row parse_csv_content returns is the header set
\* of the first logical row: no later line adds or removes a key, also when
\* the header has no Participants column and continuation lines follow a row.
C8_KeysAreHeaders ==
    pc = "convert" => \A k \in 1..Len(rows) : DOMAIN rows[k] = HeaderSet

\* the loop has just handled line i-1, a data row line (not the header)
JustOpened ==
    /\ pc = "parse" /\ i > 1
    /\ IsNewRowLine(lines[i - 1])
    /\ NewRowLines(i - 2) # {}

Distinct(seq) == \A a, b \in 1..Len(seq) : seq[a] = seq[b] => a = b

\* C9: a data row line with k fields, under n distinct header names, maps the
\* i-th header to the i-th field for i <= min(k, n), to "" for k < i <= n,
\* and ignores the fields beyond the n-th.
C9_PositionalZip ==
    (JustOpened /\ Distinct(headers[1])) =>
    LET hs  == headers[1]
        fs  == SplitFields(Strip(lines[i - 1]))
        row == current_row[1]
    IN  /\ current_row # None
        /\ DOMAIN row = HeaderSet
        /\ \A j \in 1..Len(hs) :
              row[hs[j]] = IF j <= Len(fs) THEN fs[j] ELSE ""

\* a data row line with fewer fields than headers has just been zipped
C9_Witness ==
    /\ JustOpened /\ Distinct(headers[1])
    /\ Len(SplitFields(Strip(lines[i - 1]))) < Len(headers[1])
    /\ current_row # None
    /\ current_row[1][headers[1][Len(headers[1])]] = ""

\* a calendar date
IsDate(d) ==
    /\ d.year >= 1 /\ d.month \in 1..12
    /\ d.day \in 1..DaysInMonth(d.month, d.year)

\* C10: every Activity of read_agenda_file has a date: a row whose date does
\* not parse is skipped, the failure of parse_date does not leave
\* read_agenda_file (what ends it early is the open, the header or the
\* html.unescape of a row, never a date), and the rows after it are still
\* processed.
C10_ActivitiesHaveDate ==
    /\ \A j \in 1..Len(activities) : IsDate(activities[j].date)
    /\ \A j \in 1..Len(all_activities) : IsDate(all_activities[j].date)
    /\ dpc = "aborted" => reader = << >> \/ RowRaises(reader[rownum])
    /\ \A k \in ProcessedRows :
          IF Len(reader[k]) >= 5 /\ parse_date(reader[k][4]).raised
          THEN ActivitiesOfRow(k) = {}
          ELSE ( /\ Len(reader[k]) >= 5
                 /\ ~parse_time(reader[k][5]).raised )
               => Cardinality(ActivitiesOfRow(k)) = 1

\* a row with an unparseable date was skipped and the row after it was built
C10_Witness ==
    /\ dpc = "read" /\ rownum = 4
    /\ Len(reader[2]) >= 5 /\ parse_date(reader[2][4]).raised
    /\ Len(activities) = 1 /\ activities[1].row = 3

\* the rows gone through that have fewer than 5 fields
ShortRows == {k \in ProcessedRows : Len(reader[k]) < 5}

\* C11: read_agenda_file builds no Activity from a row with fewer than 5
\* fields and such a row raises nothing: the Activities are at most as many
\* as the data rows gone through, and fewer when one of them is short.
C11_ShortRowSkipped ==
    /\ \A k \in ShortRows : ActivitiesOfRow(k) = {}
    /\ dpc = "read" => Len(activities) <= Cardinality(ProcessedRows)
    /\ dpc = "read" /\ ShortRows # {}
          => Len(activities) < Cardinality(ProcessedRows)
    /\ dpc = "aborted" /\ reader # << >> => Len(reader[rownum]) >= 5

\* all rows of a file are gone through, one was short and one gave an Activity
C11_Witness ==
    /\ dpc = "read" /\ rownum = Len(reader) + 1
    /\ ShortRows # {} /\ Len(activities) >= 1

\* the events built from row k of the source being converted
EventsOfRow(k) == {n \in 1..Len(cal) : cal[n].row = k}

\* C12: in convert_csv_to_ical a row yields at most one event; the summary of
\* an event is the description of its row when that is non-empty, else the
\* activity type of the row; a row with neither yields no event.
C12_SummaryRule ==
    pc = "convert" =>
    \A k \in 1..Len(rows) :
        LET description   == DictGet(rows[k], "Description", "")
            activity_type == DictGet(rows[k], TypeKey, "")
        IN  /\ Cardinality(EventsOfRow(k)) <= 1
            /\ \A n \in EventsOfRow(k) :
                  cal[n].summary =
                      IF description # "" THEN description ELSE activity_type
            /\ description = "" /\ activity_type = "" => EventsOfRow(k) = {}

\* all rows are converted: one with a description and an activity type gave an
\* event named by the description, one with a date and neither gave none
C12_Witness ==
    /\ pc = "convert" /\ r = Len(rows) + 1 /\ Len(rows) = 2
    /\ DictGet(rows[1], "Description", "") = "Avis"
    /\ DictGet(rows[1], TypeKey, "") = "Visite"
    /\ EventsOfRow(1) # {} /\ cal[1].summary = "Avis"
    /\ DictGet(rows[2], "Date", "") # ""
    /\ DictGet(rows[2], "Description", "") = ""
    /\ DictGet(rows[2], TypeKey, "") = ""
    /\ EventsOfRow(2) = {}

\* the result convert_csv_to_ical has just returned to main
LastResult == results'[Len(results')]

\* C13: convert_csv_to_ical writes the calendar file and returns True exactly
\* when at least one event was produced for the source; a source without
\* events (empty, header only, all rows skipped, unreadable) gets no file and
\* False.
C13_WrittenIffEvents ==
    [][ results' # results =>
          /\ results' = Append(results, LastResult)
          /\ LastResult.returned = LastResult.written
          /\ LastResult.written = (pc = "convert" /\ Len(cal) >= 1) ]_vars

\* one source gave events and got its file, the other held a header and rows
\* that were all skipped and got none
C13_Witness ==
    /\ pc = "main" /\ Len(results) = 2
    /\ results[1].written /\ results[1].returned
    /\ results[2].read_ok /\ ~results[2].written /\ ~results[2].returned

\* C14: parse_datetime returns None whenever the date string does not begin
\* with a DD-MM-YYYY run, whatever the time string; when it begins with one
\* that is a calendar date, the text after the run is ignored and the result
\* carries exactly that date.
C14_LeadingDateRun ==
    result.fn = "parse_datetime" =>
        /\ ~DateRunMatch(date_str) => result.value = None
        /\ ValidLeadingDate(date_str) =>
              /\ result.value # None
              /\ result.value = parse_datetime(SubSeq(date_str, 1, 10), time_str)
              /\ result.value[1].year = LeadingDate(date_str)[1].year
              /\ result.value[1].month = LeadingDate(date_str)[1].month
              /\ result.value[1].day = LeadingDate(date_str)[1].day

\* a sorts strictly before b in the order the claim states: a timed activity
\* before an untimed one, an earlier time of day before a later one
SortsBefore(a, b) ==
    \/ a.time # None /\ b.time = None
    \/ /\ a.time # None /\ b.time # None
       /\ a.time[1].hour * 60 + a.time[1].minute
             < b.time[1].hour * 60 + b.time[1].minute

\* the output position the claim gives to the j-th activity of the day: behind
\* those that sort before it and behind the earlier ones of equal key
RankInDay(day, j) ==
    1 + Cardinality({ m \in 1..Len(day) :
                        \/ SortsBefore(day[m], day[j])
                        \/ /\ ~SortsBefore(day[j], day[m]) /\ m < j })

\* the activities of the day in the order the claim states
ClaimedOrder(day) ==
    [p \in 1..Len(day) |-> day[CHOOSE j \in 1..Len(day) : RankInDay(day, j) = p]]

\* the days the loop of main has been through
DaysDone == { DaysBefore(today, n) : n \in 0..(day_i - 1) }

\* C15: for every day the summaries were made for, the JSON events and the
\* markdown blocks are those of the day's activities with the timed ones first
\* by ascending time of day, the untimed ones last, and the activities of
\* equal key in the order they were met; the sort never raises, whatever the
\* number of untimed activities.
C15_TimedFirstStable ==
    /\ spc # "aborted"
    /\ \A date \in DaysDone :
          LET day == DayActivities(all_activities, date) IN
          day # << >> =>
             /\ \E n \in 1..Len(json_files) :
                   /\ json_files[n].name = StrftimeYmd(date) \o ".json"
                   /\ json_files[n].content.events
                         = [p \in 1..Len(day) |-> JsonEvent(ClaimedOrder(day)[p])]
             /\ \E n \in 1..Len(md_files) :
                   /\ md_files[n].name = StrftimeYmd(date) \o ".md"
                   /\ md_files[n].content = MarkdownOf(ClaimedOrder(day), date)

\* the day of 5 March 2024 was summarised from an untimed activity, a 9h00
\* one, a second untimed one and a second 9h00 one, met in that order
C15_Witness ==
    /\ spc = "done"
    /\ Len(all_activities) = 4
    /\ \A k \in 1..4 : DateOf(all_activities[k].date) = [year |-> 2024, month |-> 3, day |-> 5]
    /\ all_activities[1].time = None /\ all_activities[3].time = None
    /\ all_activities[2].time # None /\ all_activities[2].time = all_activities[4].time
    /\ all_activities[1] # all_activities[3]
    /\ all_activities[2] # all_activities[4]
    /\ \E n \in 1..Len(json_files) :
          /\ json_files[n].name = "2024-03-05.json"
          /\ json_files[n].content.events
                = [p \in 1..4 |-> JsonEvent(all_activities[<< 2, 4, 1, 3 >>[p]])]


\* the positions in all_activities of the activities dated date
IndicesOfDay(date) ==
    { k \in 1..Len(all_activities) : DateOf(all_activities[k].date) = date }

\* the one-to-one listings of a set of positions
Listings(idx) ==
    { f \in [1..Cardinality(idx) -> idx] :
         \A p, q \in 1..Cardinality(idx) : p # q => f[p] # f[q] }

\* C16: a day the loop went through has no markdown file and no JSON file
\* exactly when no activity carries its date; otherwise it has one file of
\* each kind, and the document lists the activities of that date, each once,
\* and nothing else.
C16_ExactlyTheDay ==
    /\ spc # "aborted"
    /\ \A n \in 1..Len(json_files) :
          \E date \in DaysDone : json_files[n].name = StrftimeYmd(date) \o ".json"
    /\ \A n \in 1..Len(md_files) :
          \E date \in DaysDone : md_files[n].name = StrftimeYmd(date) \o ".md"
    /\ \A date \in DaysDone :
          LET idx == IndicesOfDay(date)
              jsons == { n \in 1..Len(json_files) :
                           json_files[n].name = StrftimeYmd(date) \o ".json" }
              mds == { n \in 1..Len(md_files) :
                         md_files[n].name = StrftimeYmd(date) \o ".md" }
          IN  /\ idx = {} <=> jsons = {}
              /\ idx = {} <=> mds = {}
              /\ idx # {} =>
                    /\ Cardinality(jsons) = 1 /\ Cardinality(mds) = 1
                    /\ \A n \in jsons :
                          /\ json_files[n].content.date = StrftimeYmd(date)
                          /\ \E f \in Listings(idx) :
                                json_files[n].content.events
                                   = [p \in 1..Cardinality(idx) |->
                                         JsonEvent(all_activities[f[p]])]
                    /\ \A n \in mds :
                          \E f \in Listings(idx) :
                             md_files[n].content
                                = MarkdownOf([p \in 1..Cardinality(idx) |->
                                                 all_activities[f[p]]], date)

\* main ran on 6 March 2024 over three activities of 5 March and one of
\* 4 March: nothing was written for the 6th, and the files of the 5th hold the
\* three activities
C16_Witness ==
    /\ spc = "done"
    /\ today = [year |-> 2024, month |-> 3, day |-> 6]
    /\ Cardinality(IndicesOfDay([year |-> 2024, month |-> 3, day |-> 5])) = 3
    /\ Cardinality(IndicesOfDay([year |-> 2024, month |-> 3, day |-> 4])) = 1
    /\ Len(json_files) = 1 /\ Len(md_files) = 1
    /\ json_files[1].name = "2024-03-05.json"
    /\ Len(json_files[1].content.events) = 3
    /\ md_files[1].name = "2024-03-05.md"


\* C17: two calls of the same parser on the same source, whatever was parsed
\* before or in between, end the same way: the same headers and the same rows
\* in the same order for parse_csv_content, the same activities in the same
\* order for read_agenda_file, or the same exception.
C17_SameSourceSameResult ==
    \A a, b \in 1..Len(returns) :
        (returns[a].fn = returns[b].fn /\ returns[a].source = returns[b].source)
            => /\ returns[a].raised = returns[b].raised
               /\ returns[a].value = returns[b].value

\* a source with a header and a row was parsed, then another source of
\* another header, then the first one again
C17_Witness ==
    /\ Len(returns) = 3
    /\ returns[1].fn = returns[3].fn
    /\ returns[1].source = returns[3].source
    /\ returns[2].fn = returns[1].fn
    /\ returns[2].source # returns[1].source
    /\ ~returns[1].raised /\ ~returns[2].raised
    /\ returns[1].fn = "parse_csv_content"
    /\ returns[1].value[1] # None /\ returns[2].value[1] # None
    /\ returns[1].value[1] # returns[2].value[1]
    /\ Len(returns[1].value[2]) >= 1


\* the text holds a tag: '<', one or more characters other than '>', '>'
HasTag(s) ==
    \E a \in Positions(s, {"<"}), b \in Positions(s, {">"}) :
        /\ b >= a + 2
        /\ \A k \in Positions(s, {">"}) : ~(a < k /\ k < b)

\* the text holds an entity that decoding would still replace
HasEntity(s) == HtmlUnescape(s) # s

HtmlCleaned(s) == ~HasTag(s) /\ ~HasEntity(s)

\* C18: the description, the location and the participants of every activity
\* built by read_agenda_file hold no HTML tag and no undecoded entity.
C18_FieldsHtmlCleaned ==
    \A k \in 1..Len(activities) :
        /\ HtmlCleaned(activities[k].description)
        /\ HtmlCleaned(activities[k].location)
        /\ HtmlCleaned(activities[k].participants)


\* C19: clean_html never raises; on an absent or empty argument it returns
\* the empty string; the string it returns holds no tag, that is no '<'
\* followed by one or more characters other than '>' and a '>'.
C19_TotalAndTagFree ==
    result.fn = "clean_html" =>
        /\ ~result.value.raised
        /\ (html_text = None \/ html_text = Some("")) => result.value.value = ""
        /\ ~HasTag(result.value.value)

\* the text ends with an 'h' and exactly two digits of minutes
TwoDigitMinute(ts) ==
    /\ Len(ts) >= 3
    /\ CharAt(ts, Len(ts) - 2) \in { "h", "H" }
    /\ IsDigits(SubSeq(ts, Len(ts) - 1, Len(ts)))

\* C20: parse_time returns None for the empty string and 14:30 for "14h30",
\* and raises on a string whose minutes are not exactly two digits, such as
\* "9h5".
C20_MinuteOfTwoDigits ==
    result.fn = "parse_time" =>
        /\ time_str = "" => result.value = Returned(None)
        /\ time_str = "14h30" =>
              result.value = Returned(Some([hour |-> 14, minute |-> 30]))
        /\ (time_str # "" /\ ~TwoDigitMinute(time_str)) => result.value.raised


\* the number of quote characters of the line
QuoteCount(line) == Cardinality(Positions(line, { "\"" }))

\* at least two quote characters and at least one semicolon
TwoQuotesAndSemicolon(line) ==
    QuoteCount(line) >= 2 /\ Positions(line, { ";" }) # {}

\* the loop of parse_csv_content goes through a non-blank line
LineStep ==
    /\ pc = "parse" /\ pc' = "parse"
    /\ i <= Len(lines) /\ i' = i + 1
    /\ Strip(lines[i]) # ""

\* the step took the line as a new logical row: it set the header, or closed
\* the open row, or opened a row when none was open
TakenAsNewRow ==
    \/ headers' # headers
    \/ rows' # rows
    \/ current_row = None /\ current_row' # None

\* C21: a non-blank line is taken as a new logical row exactly when it holds
\* at least two quotes and a semicolon; any other non-blank line, while a row
\* is open, leaves headers, rows and every other field of the open row alone
\* and sets its Participants to the trimmed previous value, a newline and the
\* cleaned line, or to the cleaned line alone when the previous value was
\* empty.
C21_RowOrContinuation ==
    [][ LineStep =>
          LET line == Strip(lines[i]) IN
          /\ TakenAsNewRow <=> TwoQuotesAndSemicolon(line)
          /\ (~TwoQuotesAndSemicolon(line) /\ current_row # None) =>
                /\ headers' = headers /\ rows' = rows
                /\ current_row' # None
                /\ LET old     == current_row[1]
                       new     == current_row'[1]
                       prev    == IF "Participants" \in DOMAIN old
                                  THEN Strip(old["Participants"]) ELSE ""
                       cleaned == clean_html(StripChars(line, { " ", "\"" }))
                   IN  /\ DOMAIN new = DOMAIN old \cup { "Participants" }
                       /\ \A k \in DOMAIN old \ { "Participants" } :
                             new[k] = old[k]
                       /\ new["Participants"] =
                             IF prev = "" THEN cleaned
                             ELSE prev \o "\n" \o cleaned ]_vars

\* a source was parsed whose first row took two continuation lines, one of
\* them with two quotes and no semicolon, and whose second row, of empty
\* Participants, took a line with a semicolon and no quote
C21_Witness ==
    /\ pc = "convert" /\ Len(rows) = 2
    /\ \E a, b \in 1..Len(lines) :
          /\ a < b
          /\ TwoQuotesAndSemicolon(lines[a]) /\ TwoQuotesAndSemicolon(lines[b])
          /\ lines[a + 1] = "Carol" /\ lines[a + 2] = "\"Dave\""
          /\ lines[b + 1] = "a;b" /\ b + 1 = Len(lines)
    /\ rows[1]["Participants"] = "Al\nBo\nCarol\nDave"
    /\ rows[2]["Participants"] = "a;b"


\* line j of the source is a continuation line that arrives while no data row
\* is open: fewer than two new-row lines (the header and a first data row)
\* come before it
NoRowOpenAt(ls, j) ==
    /\ Strip(ls[j]) # "" /\ ~TwoQuotesAndSemicolon(Strip(ls[j]))
    /\ Cardinality({ m \in 1..(j - 1) : TwoQuotesAndSemicolon(Strip(ls[m])) }) < 2

\* the source without those lines
WithoutUnopened(ls) ==
    LET kept == { j \in 1..Len(ls) : ~NoRowOpenAt(ls, j) } IN
    [p \in 1..Cardinality(kept) |-> ls[Nth(kept, p)]]

\* C22: a continuation line that arrives while no data row is open changes
\* neither headers, nor rows, nor the open row (there is none); and the
\* headers and rows returned for a source are those returned for the same
\* source without such lines.
C22_UnopenedDiscarded ==
    [][ /\ (LineStep /\ current_row = None
              /\ ~TwoQuotesAndSemicolon(Strip(lines[i])))
           => (headers' = headers /\ rows' = rows /\ current_row' = None)
        /\ \A a, b \in 1..Len(returns') :
              ( /\ returns'[a].fn = "parse_csv_content"
                /\ returns'[b].fn = "parse_csv_content"
                /\ returns'[b].source = WithoutUnopened(returns'[a].source) )
              => /\ returns'[a].raised = returns'[b].raised
                 /\ returns'[a].value = returns'[b].value ]_vars

\* a source with a line before its header and one between the header and the
\* first row was parsed, and so was the same source without the two lines;
\* both returned one row
C22_Witness ==
    \E a, b \in 1..Len(returns) :
        /\ returns[a].fn = "parse_csv_content"
        /\ returns[b].fn = "parse_csv_content"
        /\ returns[b].source = WithoutUnopened(returns[a].source)
        /\ Len(returns[b].source) = Len(returns[a].source) - 2
        /\ ~returns[a].raised /\ ~returns[b].raised
        /\ Len(returns[a].value[2]) = 1
        /\ returns[a].value = returns[b].value


\* the lines among the first n of the source that open a data row: the
\* new-row lines but the first, which is the header
DataLines(n) ==
    { j \in 1..n :
        /\ TwoQuotesAndSemicolon(Strip(lines[j]))
        /\ \E m \in 1..(j - 1) : TwoQuotesAndSemicolon(Strip(lines[m])) }

\* the row holds, under the header names but Participants, the fields of line j
RowOfLine(row, j) ==
    LET made == MakeRow(headers[1], SplitFields(Strip(lines[j]))) IN
    \A key \in DOMAIN made \ { "Participants" } :
        key \in DOMAIN row /\ row[key] = made[key]

\* C23: while the source is parsed, the rows opened so far are, in the order
\* of their lines, the rows of the list followed by the open row; when
\* parse_csv_content returns, the list holds one row for each data-row line,
\* in the order of the lines: none is lost, none is there twice.
C23_EachRowOnce ==
    pc \in { "parse", "convert" } =>
        LET data   == DataLines(i - 1)
            opened == IF pc = "parse" THEN CloseRow(rows, current_row) ELSE rows
        IN  /\ Len(opened) = Cardinality(data)
            /\ pc = "parse" => (current_row # None <=> data # {})
            /\ pc = "parse" => Len(rows) = Max(Cardinality(data) - 1, 0)
            /\ pc = "convert" => i = Len(lines) + 1
            /\ \A k \in 1..Len(opened) : RowOfLine(opened[k], Nth(data, k))

\* a source of a header and two different data rows was parsed and both rows
\* were returned
C23_Witness ==
    /\ pc = "convert" /\ Len(lines) = 3
    /\ DataLines(3) = { 2, 3 }
    /\ Len(rows) = 2 /\ rows[1] # rows[2]
    /\ \E key \in DOMAIN rows[1] \cap DOMAIN rows[2] :
          key # "Participants" /\ rows[1][key] # rows[2][key]


\* the semicolons of the line with an even number of quotes before them: the
\* flag, false at the start of the line and toggled by each quote, is false
SemicolonsOutside(line) ==
    { k \in Positions(line, { ";" }) :
        Cardinality({ m \in Positions(line, { "\"" }) : m < k }) % 2 = 0 }

\* the other semicolons of the line
SemicolonsInside(line) == Positions(line, { ";" }) \ SemicolonsOutside(line)

\* C24: the fields split from a new-row line are cut at the semicolons that
\* an even number of quotes of the line precede, and at no other place: each
\* such semicolon ends a field, there are at most one more fields than such
\* semicolons (before the padding to the length of the header), and every
\* other semicolon is in the text of the field it was met in.
C24_QuotedSemicolonKept ==
    [][ (LineStep /\ TwoQuotesAndSemicolon(Strip(lines[i]))) =>
          LET line    == Strip(lines[i])
              outside == SemicolonsOutside(line)
              inside  == SemicolonsInside(line)
              n       == Cardinality(outside)
              padded  == IF headers = None THEN 0 ELSE Len(headers[1])
              lo(p)   == IF p = 1 THEN 0 ELSE Nth(outside, p - 1)
              hi(p)   == IF p <= n THEN Nth(outside, p) ELSE Len(line) + 1
          IN  /\ Len(fields') >= n
              /\ Len(fields') <= Max(n + 1, padded)
              /\ \A p \in 1..Len(fields') :
                    Count(fields'[p], ";") =
                       IF p <= n + 1
                       THEN Cardinality({ k \in inside : lo(p) < k /\ k < hi(p) })
                       ELSE 0 ]_vars

\* the header "Date;Jour";"Heure";"Description" gave three names, the row
\* after a line that ends inside quotes gave the field Al;Bo;Cy
C24_Witness ==
    /\ pc = "convert"
    /\ headers = Some(<< "Date;Jour", "Heure", "Description" >>)
    /\ Len(rows) = 2
    /\ rows[1]["Heure"] = "x;y"
    /\ rows[2]["Description"] = "Al;Bo;Cy"
    /\ fields = << "08-03-2024", "", "Al;Bo;Cy", "z" >>


\* one or two digits that name an hour of the 24-hour clock
ValidHour(s) == Len(s) \in 1..2 /\ IsDigits(s) /\ ToInt(s) <= 23

\* the hour of a time string without minutes: the hour alone, or the hour and
\* the marker 'h'; None for any other string
HourWithoutMinutes(ts) ==
    IF ValidHour(ts) THEN Some(ToInt(ts))
    ELSE IF /\ Len(ts) \in 2..3 /\ CharAt(ts, Len(ts)) = "h"
            /\ ValidHour(SubSeq(ts, 1, Len(ts) - 1))
         THEN Some(ToInt(SubSeq(ts, 1, Len(ts) - 1)))
    ELSE None

\* C25: with a valid date, a time string that holds a valid hour and no
\* minutes ("14", "14h") gives the instant of that date at hour:00.
C25_MissingMinuteIsZero ==
    ( /\ result.fn = "parse_datetime"
      /\ ValidLeadingDate(date_str)
      /\ HourWithoutMinutes(time_str) # None )
    => result.value = Some([LeadingDate(date_str)[1] EXCEPT
                               !.hour = HourWithoutMinutes(time_str)[1],
                               !.minute = 0])


\* the lines the claim gives to the body of the event of a row: the type
\* line, the description line, the header and one bullet for each participant
\* line that is not empty once trimmed
ClaimedBody(row) ==
    LET activity_type == Strip(DictGet(row, TypeKey, ""))
        description   == Strip(DictGet(row, "Description", ""))
        plines        == SplitLines(Strip(DictGet(row, "Participants", "")))
        kept          == { j \in 1..Len(plines) : Strip(plines[j]) # "" }
    IN  (IF activity_type # "" THEN << "Type: " \o activity_type >> ELSE << >>)
        \o (IF description # "" THEN << "Description: " \o description >>
            ELSE << >>)
        \o (IF kept # {} THEN << "Participants:" >> ELSE << >>)
        \o [p \in 1..Cardinality(kept) |-> "- " \o Strip(plines[Nth(kept, p)])]

\* C26: the body of every event is, in this order, its "Type:" line when the
\* type is not empty, its "Description:" line when the description is not
\* empty, and, when the row has a participant line that is not empty, the
\* "Participants:" header and one "- " bullet for each such line, trimmed, in
\* the order of the lines; no bullet is empty.
C26_BodyInFixedOrder ==
    pc = "convert" =>
        \A n \in 1..Len(cal) :
            LET body == ClaimedBody(rows[cal[n].row]) IN
            /\ cal[n].description = JoinLines(body)
            /\ \A p \in 1..Len(SplitLines(cal[n].description)) :
                  Strip(SplitLines(cal[n].description)[p]) # "-"

\* the event of a row with a type, a description and three participant lines,
\* one of them from a continuation line, has the six lines in order
C26_Witness ==
    /\ pc = "convert" /\ Len(cal) = 1
    /\ cal[1].description =
          "Type: Visite\nDescription: Avis\nParticipants:\n- Al\n- Bo\n- Carol"


\* C27: while a source is parsed, a row that is in the list stays as it is
\* and where it is, whatever line comes next; a line that is not a new row
\* leaves the list alone; headers, once set, stays as it is.
C27_ClosedRowsFrozen ==
    [][ pc = "parse" =>
          /\ Len(rows') >= Len(rows)
          /\ \A k \in 1..Len(rows) : rows'[k] = rows[k]
          /\ headers # None => headers' = headers
          /\ (LineStep /\ ~TwoQuotesAndSemicolon(Strip(lines[i])))
                => rows' = rows ]_vars

\* the first row is closed with its four participant lines; the second row
\* is open and has just taken a continuation line
C27_Witness ==
    /\ pc = "parse" /\ i > 1 /\ Strip(lines[i - 1]) = "a;b"
    /\ Len(rows) = 1
    /\ rows[1]["Participants"] = "Al\nBo\nCarol\nDave"
    /\ current_row # None
    /\ current_row[1]["Participants"] = "a;b"
    /\ current_row[1]["Date"] # rows[1]["Date"]

====
